---- MODULE Spec2Model ----
(***************************************************************************)
(* Ticket flow of the chat-to-ticket bridge: one session per               *)
(* (conversation, sender) key, driven by message and poll-vote handlers    *)
(* that the channel's event emitter starts without waiting for earlier     *)
(* ones.  A handler runs atomically between two awaited calls; every       *)
(* action below is the completion of one awaited call followed by the      *)
(* synchronous code up to the next awaited call.                           *)
(*                                                                         *)
(* Strings are sequences of one-character strings, <<>> being both the     *)
(* empty string and an absent (undefined/null) value; ids are positive     *)
(* integers and 0 is null.                                                 *)
(***************************************************************************)
EXTENDS Integers, Sequences, FiniteSets, TLC

\* ------------------------------------------------------------------ bounds
MaxEvents == 2
MaxHandlers == 2
MaxSessions == 3
MaxMedia == 2
MaxFaults == 1
MaxRequests == 2
MaxLogins == 3
MaxPieces == 4
MaxFields == 2
MaxPages == 2
PageSize == 2

\* ------------------------------------------------------- program constants
MAX_SELECTION_CANDIDATES == 10
MAX_SCAN_MATCHES == 10
DniLength == 8

\* ----------------------------------------------------------------- strings
Digits == {"0", "1", "2", "3", "4", "5", "6", "7", "8", "9"}
Space == " "
\* the characters that \s matches and trim() removes
WhiteSpace == {Space, "\n"}

\* NFD decomposition followed by removal of the combining marks
StripMark(c) ==
  CASE c = "á" -> "a"
    [] c = "Á" -> "A"
    [] c = "ó" -> "o"
    [] OTHER -> c

LowerAlphabet ==
  <<"a", "b", "c", "d", "e", "f", "g", "h", "i", "j", "k", "l", "m",
    "n", "o", "p", "q", "r", "s", "t", "u", "v", "w", "x", "y", "z">>
UpperAlphabet ==
  <<"A", "B", "C", "D", "E", "F", "G", "H", "I", "J", "K", "L", "M",
    "N", "O", "P", "Q", "R", "S", "T", "U", "V", "W", "X", "Y", "Z">>
UpperLetters == {UpperAlphabet[i] : i \in 1..26}

ToUpper(c) ==
  IF \E i \in 1..26 : LowerAlphabet[i] = c
  THEN UpperAlphabet[CHOOSE i \in 1..26 : LowerAlphabet[i] = c]
  ELSE c

MapSeq(s, Op(_)) == [i \in 1..Len(s) |-> Op(s[i])]

RECURSIVE TrimLeft(_)
TrimLeft(s) ==
  IF s # <<>> /\ Head(s) \in WhiteSpace THEN TrimLeft(Tail(s)) ELSE s

RECURSIVE TrimRight(_)
TrimRight(s) ==
  IF s # <<>> /\ s[Len(s)] \in WhiteSpace THEN TrimRight(SubSeq(s, 1, Len(s) - 1)) ELSE s

Trim(s) == TrimRight(TrimLeft(s))

\* replace(/\s+/g, " ")
RECURSIVE CollapseSpaces(_)
CollapseSpaces(s) ==
  IF Len(s) < 2 THEN s
  ELSE IF s[1] = Space /\ s[2] = Space THEN CollapseSpaces(Tail(s))
  ELSE <<s[1]>> \o CollapseSpaces(Tail(s))

normalizeText(value) ==
  MapSeq(Trim(CollapseSpaces(MapSeq(value, StripMark))), ToUpper)

\* replace(/[^A-Z ]+/g, " ") after normalizeText, then collapse and trim
normalizeName(value) ==
  Trim(CollapseSpaces(
    MapSeq(normalizeText(value),
           LAMBDA c : IF c \in UpperLetters \/ c = Space THEN c ELSE Space)))

OnlyDigits(s) == SelectSeq(s, LAMBDA c : c \in Digits)

\* null is <<>>
normalizePhone(value) == OnlyDigits(value)

extractDni(value) ==
  IF Len(OnlyDigits(value)) = DniLength THEN OnlyDigits(value) ELSE <<>>

\* value.trim().split(/\s+/).filter(Boolean).length
RECURSIVE CountTokens(_)
CountTokens(s) ==
  IF s = <<>> THEN 0
  ELSE IF Head(s) = Space THEN CountTokens(Tail(s))
  ELSE IF Len(s) = 1 \/ s[2] = Space THEN 1 + CountTokens(Tail(s))
  ELSE CountTokens(Tail(s))

DigitValue(c) ==
  CASE c = "0" -> 0 [] c = "1" -> 1 [] c = "2" -> 2 [] c = "3" -> 3
    [] c = "4" -> 4 [] c = "5" -> 5 [] c = "6" -> 6 [] c = "7" -> 7
    [] c = "8" -> 8 [] OTHER -> 9

RECURSIVE Decimal(_)
Decimal(s) ==
  IF s = <<>> THEN 0 ELSE 10 * Decimal(SubSeq(s, 1, Len(s) - 1)) + DigitValue(s[Len(s)])

\* Number(trimmed) for the replies of the model: a string of decimal digits
\* is that integer, any other string of the alphabet is NaN (-1 here)
ToNumber(s) ==
  IF s # <<>> /\ \A i \in 1..Len(s) : s[i] \in Digits THEN Decimal(s) ELSE -1

RECURSIVE JoinWords(_)
JoinWords(parts) ==
  IF parts = <<>> THEN <<>>
  ELSE IF Len(parts) = 1 THEN parts[1]
  ELSE parts[1] \o <<Space>> \o JoinWords(Tail(parts))

NonEmpty(parts) == SelectSeq(parts, LAMBDA p : p # <<>>)

RECURSIVE IndexOf(_, _, _)
IndexOf(seq, x, i) ==
  IF i > Len(seq) THEN 0 ELSE IF seq[i] = x THEN i ELSE IndexOf(seq, x, i + 1)

Contains(seq, x) == IndexOf(seq, x, 1) # 0

\* String.prototype.includes
IsSubstring(needle, hay) ==
  \E i \in 0..(Len(hay) - Len(needle)) : SubSeq(hay, i + 1, i + Len(needle)) = needle

\* ------------------------------------------------------ ticket text parser
\* String.prototype.split at one character
RECURSIVE SplitAt(_, _)
SplitAt(s, sep) ==
  LET n == IndexOf(s, sep, 1)
  IN  IF n = 0 THEN <<s>>
      ELSE <<SubSeq(s, 1, n - 1)>> \o SplitAt(SubSeq(s, n + 1, Len(s)), sep)

Trimmed(parts) == [n \in 1..Len(parts) |-> Trim(parts[n])]

\* split(/\s*-\s*/), trim, filter: the white space that the pattern takes
\* with the dash is white space that trim removes
splitByDash(value) == NonEmpty(Trimmed(SplitAt(value, "-")))

looksLikeDni(value) == Len(OnlyDigits(value)) = DniLength

normalizeTemplateKey(value) == MapSeq(Trim(MapSeq(value, StripMark)), ToUpper)

normalizeTicketKey(value) ==
  Trim(CollapseSpaces(
    MapSeq(normalizeTemplateKey(value),
           LAMBDA c : IF c \in UpperLetters \cup Digits \/ c = Space THEN c ELSE Space)))

\* KEY_MAP: its keys of at most five characters ("" for a key it does not hold)
KEY_MAP(key) ==
  CASE key = <<"D", "N", "I">> -> "dni"
    [] key = <<"N", " ", "D", "N", "I">> -> "dni"
    [] key = <<"C", "E", "L">> -> "celular"
    [] key = <<"M", "O", "V", "I", "L">> -> "celular"
    [] key = <<"E", "M", "A", "I", "L">> -> "correo"
    [] key = <<"M", "A", "I", "L">> -> "correo"
    [] key = <<"C", "A", "R", "G", "O">> -> "cargo"
    [] key = <<"A", "R", "E", "A">> -> "dependencia"
    [] key = <<"S", "E", "D", "E">> -> "dependencia"
    [] key = <<"B", "I", "E", "N">> -> "categoria"
    [] key = <<"P", "I", "S", "O">> -> "piso"
    [] OTHER -> ""

\* PROBLEM_HINTS: its words of at most three letters
PROBLEM_HINTS ==
  { <<"N", "O">>, <<"S", "I", "N">>, <<"R", "E", "D">>, <<"V", "P", "N">>,
    <<"A", "P", "P">>, <<"P", "C">>, <<"C", "P", "U">> }

\* Partial<TicketDraft>: <<>> is undefined
NoData ==
  [solicitante |-> <<>>, asignado |-> <<>>, problema |-> <<>>, categoria |-> <<>>,
   nombre |-> <<>>, dni |-> <<>>, celular |-> <<>>, correo |-> <<>>, cargo |-> <<>>,
   dependencia |-> <<>>, piso |-> <<>>]

\* null
NoTicketDraft == [present |-> FALSE]

tokenizeWords(value) ==
  NonEmpty(SplitAt(MapSeq(normalizeTemplateKey(value),
                          LAMBDA c : IF c \in WhiteSpace THEN Space ELSE c), Space))

hasProblemHints(value) ==
  \E n \in 1..Len(tokenizeWords(value)) : tokenizeWords(value)[n] \in PROBLEM_HINTS

looksLikeName(value) ==
  LET tokens == tokenizeWords(value)
  IN  /\ Len(tokens) >= 2 /\ Len(tokens) <= 6
      /\ ~hasProblemHints(value)
      /\ \A n \in 1..Len(tokens) : \A m \in 1..Len(tokens[n]) : tokens[n][m] \in UpperLetters

looksLikeProblem(value) == OnlyDigits(value) # <<>> \/ hasProblemHints(value)

buildDraft(data, rawText) ==
  IF \A f \in DOMAIN data : data[f] = <<>> THEN NoTicketDraft
  ELSE LET solicitante == data.solicitante
           inferredDni == IF data.dni # <<>> THEN data.dni
                          ELSE IF solicitante # <<>> /\ looksLikeDni(solicitante)
                          THEN solicitante ELSE <<>>
           inferredNombre == IF data.nombre # <<>> THEN data.nombre
                             ELSE IF inferredDni = <<>> /\ solicitante # <<>>
                             THEN solicitante ELSE <<>>
           finalSolicitante == IF solicitante # <<>> THEN solicitante
                               ELSE IF inferredDni # <<>> THEN inferredDni
                               ELSE inferredNombre
       IN  [present |-> TRUE,
            data |-> [data EXCEPT !.solicitante = finalSolicitante,
                                  !.dni = inferredDni, !.nombre = inferredNombre],
            rawText |-> rawText,
            isComplete |-> finalSolicitante # <<>> /\ data.problema # <<>>]

\* parseKeyValueTemplate, lines 214-238: the loop over the lines
RECURSIVE ReadLines(_, _)
ReadLines(lines, data) ==
  IF lines = <<>> THEN data
  ELSE LET line == Head(lines)
           index == IndexOf(line, ":", 1)
           rawKey == SubSeq(line, 1, index - 1)
           value == Trim(SubSeq(line, index + 1, Len(line)))
           mapped == KEY_MAP(normalizeTicketKey(rawKey))
       IN  ReadLines(Tail(lines),
             IF index = 0 \/ rawKey = <<>> \/ value = <<>> \/ mapped = "" THEN data
             ELSE IF mapped = "dni" THEN [data EXCEPT !.dni = value, !.solicitante = value]
             ELSE IF mapped = "nombre"
             THEN [data EXCEPT !.nombre = value,
                               !.solicitante = IF @ = <<>> THEN value ELSE @]
             ELSE [data EXCEPT ![mapped] = value])

parseKeyValueTemplate(body) ==
  LET lines == NonEmpty(Trimmed(SplitAt(body, "\n")))
  IN  IF lines = <<>> THEN NoTicketDraft ELSE buildDraft(ReadLines(lines, NoData), body)

Arrow == <<"=", ">">>

parseInlineTemplate(body) ==
  IF ~IsSubstring(Arrow, body) THEN NoTicketDraft
  ELSE LET arrowIndex == CHOOSE n \in 1..Len(body) :
                           /\ SubSeq(body, n, n + 1) = Arrow
                           /\ \A m \in 1..(n - 1) : SubSeq(body, m, m + 1) # Arrow
           left == Trim(SubSeq(body, 1, arrowIndex - 1))
           right == Trim(SubSeq(body, arrowIndex + 2, Len(body)))
           leftParts == splitByDash(left)
           rightParts == splitByDash(right)
           swap == leftParts = <<>> /\ Len(rightParts) >= 2
           asignado == IF Len(leftParts) > 1 THEN leftParts[2]
                       ELSE IF swap /\ Len(rightParts) >= 3 THEN rightParts[3]
                       ELSE <<>>
       IN  IF left = <<>> /\ right = <<>> THEN NoTicketDraft
           ELSE buildDraft(
                  [NoData EXCEPT
                     !.solicitante = IF swap THEN rightParts[2]
                                     ELSE IF leftParts # <<>> THEN leftParts[1] ELSE <<>>,
                     !.asignado = asignado,
                     !.problema = IF swap THEN rightParts[1] ELSE right],
                  body)

\* faulty variant of parseLooseDashTemplate: the first segment is always the
\* requester
parseLooseDashFirstRequester(body) ==
  LET parts == splitByDash(body)
  IN  IF IsSubstring(Arrow, body) \/ Len(parts) # 2 THEN NoTicketDraft
      ELSE buildDraft([NoData EXCEPT !.solicitante = parts[1], !.problema = parts[2]], body)

parseLooseDashTemplate(body) ==
  LET parts == splitByDash(body)
      first == parts[1]
      second == parts[2]
      firstFirst == buildDraft([NoData EXCEPT !.solicitante = first, !.problema = second], body)
      secondFirst == buildDraft([NoData EXCEPT !.solicitante = second, !.problema = first], body)
  IN  IF IsSubstring(Arrow, body) \/ Len(parts) # 2 THEN NoTicketDraft
      ELSE IF looksLikeDni(first) /\ ~looksLikeDni(second) THEN firstFirst
      ELSE IF looksLikeDni(second) /\ ~looksLikeDni(first) THEN secondFirst
      ELSE IF looksLikeName(first) /\ ~looksLikeName(second) THEN firstFirst
      ELSE IF looksLikeName(second) /\ ~looksLikeName(first) THEN secondFirst
      ELSE IF looksLikeProblem(first) /\ ~looksLikeProblem(second) THEN secondFirst
      ELSE IF looksLikeProblem(second) /\ ~looksLikeProblem(first) THEN firstFirst
      ELSE IF Len(first) >= Len(second) THEN secondFirst
      ELSE firstFirst

\* parseTicketText on the characters of a body
parseTicketChars(body) ==
  IF parseKeyValueTemplate(body).present THEN parseKeyValueTemplate(body)
  ELSE IF parseInlineTemplate(body).present THEN parseInlineTemplate(body)
  ELSE parseLooseDashTemplate(body)

\* ------------------------------------------------- backend user directory
\* The user records the backend's searches can return (GlpiUserCandidate).
\* Users 1 and 2 are namesakes: their names are equal after normalization.
Users ==
  <<[id |-> 1, login |-> <<"a", "r", "o", "a">>,
     firstname |-> <<"A", "n", "a">>, realname |-> <<"R", "o", "a">>,
     dni |-> <<"7", "3", "8", "7", "2", "0", "2", "8">>,
     email |-> <<"a", "@", "x">>],
    [id |-> 2, login |-> <<"a", "r", "2">>,
     firstname |-> <<"a", "n", "á">>, realname |-> <<"R", "O", "A", " ">>,
     dni |-> <<>>, email |-> <<>>]>>

UserIds == 1..Len(Users)

\* the candidate lists a backend search can answer with
SearchResults == {<<>>, <<1>>, <<1, 2>>}

IdText(id) == <<IF id = 1 THEN "1" ELSE "2">>

formatCandidateName(candidate) ==
  LET first == Trim(candidate.firstname)
      last == Trim(candidate.realname)
      fullName == Trim(JoinWords(NonEmpty(<<first, last>>)))
  IN  IF fullName # <<>> THEN fullName
      ELSE IF candidate.login # <<>> THEN candidate.login
      ELSE IdText(candidate.id)

buildCandidateLabel(candidate) ==
  LET base == formatCandidateName(candidate)
  IN  IF candidate.login # <<>> /\ candidate.login # base
      THEN base \o <<" ", "(">> \o candidate.login \o <<")">>
      ELSE base

\* candidates is a sequence of user ids
buildCandidateOptionNames(candidates) ==
  LET baseNames == [i \in 1..Len(candidates) |-> formatCandidateName(Users[candidates[i]])]
      normalized == [i \in 1..Len(candidates) |-> normalizeText(baseNames[i])]
      count(i) == Cardinality({j \in 1..Len(candidates) : normalized[j] = normalized[i]})
  IN  [i \in 1..Len(candidates) |->
         IF count(i) > 1 THEN buildCandidateLabel(Users[candidates[i]]) ELSE baseNames[i]]

\* the set of normalized keys of a candidate
buildCandidateMatchKeys(candidate) ==
  LET first == Trim(candidate.firstname)
      last == Trim(candidate.realname)
      fullName == Trim(JoinWords(NonEmpty(<<first, last>>)))
      reversed == Trim(JoinWords(NonEmpty(<<last, first>>)))
      login == Trim(candidate.login)
  IN  {normalizeText(k) : k \in {x \in {fullName, reversed, login} : x # <<>>}}

RECURSIVE FirstKeyMatch(_, _, _)
FirstKeyMatch(normalized, candidates, i) ==
  IF i > Len(candidates) THEN 0
  ELSE IF normalized \in buildCandidateMatchKeys(Users[candidates[i]]) THEN candidates[i]
  ELSE FirstKeyMatch(normalized, candidates, i + 1)

\* the id of the matched candidate, 0 for null
matchCandidateInput(input, candidates) ==
  LET trimmed == Trim(input)
      index == ToNumber(trimmed)
  IN  IF trimmed = <<>> THEN 0
      ELSE IF index >= 1 /\ index <= Len(candidates) THEN candidates[index]
      ELSE FirstKeyMatch(normalizeText(trimmed), candidates, 1)

\* ------------------------------------------------ senders and authorization
\* technicianByPhone: one technician, phone 51
TechPhone == <<"5", "1">>
TechName == <<"L", "o", "l", "a", " ", "B", "o", "a">>
technicianByPhone(phone) == IF phone = TechPhone THEN TechName ELSE <<>>

\* buildTechnicianNameEntries: sequence of [name, phone]
technicianNameEntries ==
  IF normalizeName(TechName) = <<>> THEN <<>>
  ELSE <<[name |-> normalizeName(TechName), phone |-> TechPhone]>>

\* the senders of the conversation: [senderId, senderNumber, senderLabel]
Senders ==
  { [senderId |-> <<"l", "B">>, senderNumber |-> <<>>,
     senderLabel |-> <<"l", "o", "l", "a", " ", " ", "b", "ó", "a">>],
    [senderId |-> <<"l", "B">>, senderNumber |-> <<>>, senderLabel |-> <<"Z", "o", "e">>] }

\* senderLabel of every poll vote (whatsapp.ts)
VoteLabel == <<"D", "e", "s", "c", "o", "n", "o", "c", "i", "d", "o">>

buildSessionKeyFrom(senderNumber, senderId) ==
  IF senderNumber # <<>> THEN senderNumber
  ELSE IF senderId # <<>> THEN senderId
  ELSE <<"u", "n", "k", "n", "o", "w", "n">>

buildSessionKey(message) == buildSessionKeyFrom(message.senderNumber, message.senderId)

Keys == {buildSessionKey(m) : m \in Senders}

RECURSIVE FirstFuzzyEntry(_, _)
FirstFuzzyEntry(normalizedLabel, i) ==
  IF i > Len(technicianNameEntries) THEN <<>>
  ELSE IF IsSubstring(technicianNameEntries[i].name, normalizedLabel)
          \/ IsSubstring(normalizedLabel, technicianNameEntries[i].name)
       THEN technicianNameEntries[i].phone
       ELSE FirstFuzzyEntry(normalizedLabel, i + 1)

\* the technician phone of the sender, <<>> for null
resolveSenderNumber(message) ==
  LET directNumber == normalizePhone(message.senderNumber)
      labelNumber == normalizePhone(message.senderLabel)
      normalizedLabel == normalizeName(message.senderLabel)
  IN  IF directNumber # <<>> /\ technicianByPhone(directNumber) # <<>> THEN directNumber
      ELSE IF labelNumber # <<>> /\ technicianByPhone(labelNumber) # <<>> THEN labelNumber
      ELSE IF normalizedLabel = <<>> THEN <<>>
      ELSE IF \E i \in 1..Len(technicianNameEntries) :
                 technicianNameEntries[i].name = normalizedLabel
           THEN technicianNameEntries[
                  CHOOSE i \in 1..Len(technicianNameEntries) :
                    /\ technicianNameEntries[i].name = normalizedLabel
                    /\ \A j \in 1..(i - 1) : technicianNameEntries[j].name # normalizedLabel].phone
      ELSE FirstFuzzyEntry(normalizedLabel, 1)

isAuthorizedSender(message) == resolveSenderNumber(message) # <<>>

resolveTechnicianFromSender(message) ==
  IF resolveSenderNumber(message) = <<>> THEN <<>>
  ELSE Trim(technicianByPhone(resolveSenderNumber(message)))

\* ------------------------------------------------------------ message bodies
\* A body is what is left of the message once the command is stripped:
\* parsed is what parseTicketText makes of it, text the body itself as it is
\* matched against an open selection.
NoParse ==
  [present |-> FALSE, solicitante |-> <<>>, asignado |-> <<>>, problema |-> <<>>,
   nombre |-> <<>>, dni |-> <<>>, correo |-> <<>>]

Dni1 == <<"7", "3", "8", "7", "2", "0", "2", "8">>
Name1 == <<"A", "n", "a", " ", "R", "o", "a">>
\* a requester written as a label and 8 digits
LabelledDni == <<"D", "N", "I", " ">> \o Dni1
Problem1 == <<"n", "o", " ", "v", "a">>

DataBodies ==
  { [NoParse EXCEPT !.present = TRUE, !.solicitante = Dni1, !.problema = Problem1],
    [NoParse EXCEPT !.present = TRUE, !.solicitante = Name1],
    [NoParse EXCEPT !.present = TRUE, !.solicitante = LabelledDni],
    [NoParse EXCEPT !.present = TRUE, !.problema = Problem1, !.asignado = TechName] }

SelectionTexts ==
  { <<>>, <<"2">>, <<" ", "r", "o", "a", " ", " ", "A", "N", "A">>,
    <<"a", "r", "2">>, <<"z", "o", "e">> }

Bodies ==
  {[parsed |-> p, text |-> <<"d", "a", "t", "a">>] : p \in DataBodies}
    \cup {[parsed |-> NoParse, text |-> t] : t \in SelectionTexts}

parseTicketText(body) == body.parsed

\* ------------------------------------------------------------------- state
DefaultCategoryName == <<"R", "e", "d">>

NoDraft ==
  [present |-> FALSE, solicitante |-> <<>>, asignado |-> <<>>, problema |-> <<>>,
   categoria |-> <<>>, nombre |-> <<>>, dni |-> <<>>, correo |-> <<>>,
   rawText |-> <<>>, isComplete |-> FALSE]

\* PendingSelection; open = FALSE is null
NoPending ==
  [open |-> FALSE, role |-> "", candidates |-> <<>>, pollMessageId |-> 0,
   awaitingPoll |-> FALSE]

\* TicketSession as the start command creates it
NewSession ==
  [draft |-> NoDraft, ticketId |-> 0, attachments |-> <<>>, awaitingText |-> TRUE,
   uploadedCount |-> 0, resolvedRequesterId |-> 0, resolvedAssigneeId |-> 0,
   pendingSelection |-> NoPending]

NoVote == [pollMessageId |-> 0, selectedOptionIds |-> <<>>, selectedOptionNames |-> <<>>]
NoBody == [parsed |-> NoParse, text |-> <<>>]

\* A handler: one invocation of the message or poll-vote callback.  pc is the
\* awaited call it is suspended on, k what it does when that call returns.
\* draft0 and searched are history fields: the draft as tryCreateTicket found
\* it, and whether the attempt has called a backend search.  notConfigured
\* counts the "GLPI no esta configurado" replies of the invocation (up to 2).
Idle ==
  [pc |-> "idle", k |-> "", kind |-> "", key |-> <<>>, sid |-> 0, auth |-> FALSE,
   isStart |-> FALSE, isEnd |-> FALSE, hasMedia |-> FALSE, body |-> NoBody,
   vote |-> NoVote, tech |-> <<>>, att |-> 0, mctx |-> "", ctx |-> "", role |-> "",
   byDni |-> FALSE, strict |-> FALSE, tryCtx |-> "", reqId |-> 0, asgId |-> 0,
   queue |-> <<>>, tid |-> 0, draft0 |-> NoDraft, searched |-> FALSE,
   notConfigured |-> 0, failed |-> "",
   replies |-> 0, channel |-> 0, backend |-> 0]

HandlerIds == 1..MaxHandlers
SessionIds == 1..MaxSessions

\* no function has been applied
NoOutput == [done |-> FALSE]

VARIABLES
  sessions,     \* TicketFlow.sessions: session key -> session object (0: none)
  heap,         \* the session objects, by object id
  handlers,     \* the callback invocations in flight
  pollMessages, \* whatsapp.ts pollMessages: ids of the polls that accept votes
  createdCount, \* per session object: the createTicket calls that returned an id
  uploadErrors, \* the upload failures that uploadAttachment has logged
  nextTicket, nextPoll, \* the next ticket id of the backend, the next poll id
  events,       \* events delivered so far
  faults,       \* channel calls that have thrown so far
  glpiEnabled,  \* GlpiClient.isEnabled(), fixed by the configuration
  unanswered,   \* the calls whose failure a handler returned without answering
  fnInput, fnOutput, \* the argument and the result of a function applied on its own
  glpi          \* GlpiClient: its session tokens, logins and requests in flight

vars ==
  <<sessions, heap, handlers, pollMessages, createdCount, uploadErrors,
    nextTicket, nextPoll, events, faults, glpiEnabled, glpi, unanswered,
    fnInput, fnOutput>>

flowVars ==
  <<sessions, heap, handlers, pollMessages, createdCount, uploadErrors,
    nextTicket, nextPoll, events, faults, glpiEnabled, unanswered>>

\* the state as one record, so that the synchronous code of a handler can be
\* written as a function from state to state
State ==
  [sessions |-> sessions, heap |-> heap, handlers |-> handlers,
   pollMessages |-> pollMessages, createdCount |-> createdCount,
   uploadErrors |-> uploadErrors, nextTicket |-> nextTicket, nextPoll |-> nextPoll, events |-> events,
   faults |-> faults,
   glpiEnabled |-> glpiEnabled, unanswered |-> unanswered]

\* a session object that neither the store nor a handler refers to is garbage
Live(st, o) ==
  \/ \E k \in DOMAIN st.sessions : st.sessions[k] = o
  \/ \E i \in DOMAIN st.handlers : st.handlers[i].sid = o

\* the fields of a handler that its remaining code no longer reads are
\* cleared, as are the locals of a method that has returned
Cleared(h) ==
  LET inMedia == h.pc = "getMedia" \/ (h.pc = "upload" /\ h.k = "media")
                 \/ (h.pc = "channel" /\ h.k \in {"mediaHint", "afterMedia"})
      inText == (h.pc = "channel" /\ h.k \in {"startText", "afterText"})
                \/ h.ctx = "text"
      needsBody == (h.pc = "channel" /\ h.k = "startText") \/ (inMedia /\ h.mctx = "pend")
      inCreate == h.pc \in {"search", "defaultRequester", "sendPoll", "createTicket"}
                  \/ (h.pc = "channel"
                      /\ h.k \in {"resolveNull", "createFalse", "createTrue", "notConfigured",
                                  "candidateList"})
                  \/ (h.pc = "upload" /\ h.k = "flush")
  IN  [h EXCEPT
        !.k = IF h.pc \in {"channel", "upload"} THEN @ ELSE "",
        !.body = IF needsBody THEN @ ELSE NoBody,
        !.vote = NoVote,
        !.hasMedia = IF inText THEN @ ELSE FALSE,
        !.att = IF inMedia \/ (inText /\ h.hasMedia) THEN @ ELSE 0,
        !.mctx = IF inMedia THEN @ ELSE "",
        !.isEnd = IF (inMedia /\ h.mctx # "start")
                     \/ (h.pc = "channel" /\ h.k = "selResolved")
                     \/ (inCreate /\ h.ctx = "sel") THEN @ ELSE FALSE,
        !.ctx = IF inCreate THEN @ ELSE "",
        !.tryCtx = IF h.pc \in {"channel", "sendPoll"} THEN @ ELSE "",
        !.queue = IF h.pc = "upload" /\ h.k = "flush" THEN @ ELSE <<>>,
        !.draft0 = IF inCreate /\ ~(h.pc = "upload" \/ h.k = "createTrue") THEN @ ELSE NoDraft,
        !.searched = IF inCreate /\ ~(h.pc = "upload" \/ h.k = "createTrue") THEN @ ELSE FALSE,
        !.replies = IF h.auth THEN 0 ELSE @,
        !.channel = IF h.auth THEN 0 ELSE @,
        !.backend = IF h.auth THEN 0 ELSE @]

RECURSIVE Settled(_)
Settled(h) == IF Cleared(h) = h THEN h ELSE Settled(Cleared(h))

\* the invocations in flight, in the order of their arrival
RECURSIVE InFlight(_, _)
InFlight(hs, i) ==
  IF i > MaxHandlers THEN <<>>
  ELSE IF hs[i].pc = "idle" THEN InFlight(hs, i + 1)
  ELSE <<Settled(hs[i])>> \o InFlight(hs, i + 1)

Becomes(st) ==
  /\ sessions' = st.sessions
  /\ heap' = [o \in DOMAIN st.heap |-> IF Live(st, o) THEN st.heap[o] ELSE NewSession]
  /\ handlers' = [i \in HandlerIds |->
                    IF i <= Len(InFlight(st.handlers, 1))
                    THEN InFlight(st.handlers, 1)[i] ELSE Idle]
  /\ pollMessages' = st.pollMessages
  /\ createdCount' = [o \in DOMAIN st.createdCount |->
                        IF Live(st, o) THEN st.createdCount[o] ELSE 0]
  /\ uploadErrors' = st.uploadErrors
  /\ nextTicket' = st.nextTicket
  /\ nextPoll' = st.nextPoll
  /\ events' = st.events
  /\ faults' = st.faults
  /\ glpiEnabled' = st.glpiEnabled
  /\ glpi' = glpi
  /\ unanswered' = st.unanswered
  /\ UNCHANGED <<fnInput, fnOutput>>

H(st, i) == st.handlers[i]
S(st, i) == st.heap[st.handlers[i].sid]
SetH(st, i, h) == [st EXCEPT !.handlers[i] = h]
SetS(st, i, s) == [st EXCEPT !.heap[st.handlers[i].sid] = s]

Or(a, b) == IF a # <<>> THEN a ELSE b

\* a call that the handler awaited has failed: failed names the call until
\* the handler issues a reply
Failed(st, i, call) == SetH(st, i, [H(st, i) EXCEPT !.failed = call])

\* the handler issues a reply
Replied(st, i) == SetH(st, i, [H(st, i) EXCEPT !.failed = ""])

\* the callback returns; unanswered records the call whose failure the
\* handler has not followed by any reply
Finish(st, i) ==
  [SetH(st, i, Idle) EXCEPT
     !.unanswered = IF H(st, i).failed # "" THEN @ \cup {H(st, i).failed} ELSE @]

\* An exception leaves handleMessage / handlePollVote: app.ts catches it, logs
\* it, sends a generic error reply whose failure it ignores, and returns.
Throw(st, i) == Finish(Replied(st, i), i)

\* handleMedia up to the awaited getMedia
AwaitMedia(st, i, mctx) ==
  SetH(st, i, [H(st, i) EXCEPT !.pc = "getMedia", !.mctx = mctx, !.channel = 1])

\* The reactions and replies after which handleText returns to handleMessage
\* without reading the session: k is what follows the calls.
ReturnsFromText(h, k) ==
  k = "afterText" \/ (k \in {"resolveNull", "createFalse"} /\ h.ctx = "text")

\* The reactions and replies after which the callback returns without
\* reading or writing the session or the store.
ReturnsAfter(h, k) ==
  \/ k = "finish"
  \/ ReturnsFromText(h, k) /\ ~(h.isStart /\ h.hasMedia)
  \/ k = "afterMedia" /\ (h.mctx = "start" \/ (h.mctx = "plain" /\ ~h.isEnd))
  \/ /\ k \in {"resolveNull", "createFalse"}
     /\ h.ctx \in {"fin", "vote"} \/ (h.ctx = "sel" /\ ~h.isEnd)

\* The handler issues nReact reactions and then nReply replies, awaiting each;
\* tryCtx names the try block the calls are made in.  A poll vote has no
\* react function (tryReact returns at once).  Calls that the handler's code
\* follows up without touching the session or the store commute with every
\* step of every handler, so they are taken together with what follows them:
\* the return of the callback, or the getMedia of a start message.  The
\* rejection of an unauthorized sender stays a step of its own, and that
\* handler counts the replies it has issued (up to 2) and records whether it
\* has issued any other channel call (channel) or backend call (backend).
\* The answer to an end command that finds a selection open (endPrompt) is a
\* step of its own too, as are the answer of a disabled backend
\* (notConfigured), the request to vote again (voteAgain) and the numbered
\* list of the candidates (candidateList).
AwaitChannel(st0, i, k, nReact, nReply, tryCtx) ==
  LET st == IF nReply > 0 THEN Replied(st0, i) ELSE st0
      h == H(st, i)
  IN
  IF h.auth /\ ReturnsAfter(h, k) THEN Finish(st, i)
  ELSE IF h.auth /\ ReturnsFromText(h, k) THEN AwaitMedia(st, i, "start")
  ELSE SetH(st, i, [h EXCEPT
         !.pc = "channel", !.k = k, !.tryCtx = tryCtx,
         !.channel = IF h.kind = "msg" /\ nReact > 0 THEN 1 ELSE @,
         !.replies = IF @ + nReply > 2 THEN 2 ELSE @ + nReply])

\* ------------------------------------------------- TicketFlow, synchronous
\* Each operator is the code of one method from the point named to the next
\* awaited call; it maps the state to the state at that await.
RECURSIVE handleText(_, _), handleMedia(_, _, _), finalizeSession(_, _)
RECURSIVE tryCreateTicket(_, _, _), resolveUserId(_, _, _, _)
RECURSIVE AfterHandleText(_, _), AfterHandleMedia(_, _), AfterTryCreate(_, _, _)
RECURSIVE AfterResolve(_, _, _, _), AfterUpload(_, _), uploadPendingAttachments(_, _)

applyResolvedCandidate(s, role, id) ==
  LET candidate == Users[id]
      name == formatCandidateName(candidate)
      d == s.draft
  IN  IF role = "solicitante"
      THEN [s EXCEPT
             !.resolvedRequesterId = id,
             !.draft = IF ~d.present THEN d
                       ELSE [d EXCEPT
                              !.solicitante = name,
                              !.nombre = Or(d.nombre, name),
                              !.dni = Or(d.dni, Or(extractDni(candidate.dni),
                                                   extractDni(candidate.login))),
                              !.correo = Or(d.correo, candidate.email)]]
      ELSE [s EXCEPT
             !.resolvedAssigneeId = id,
             !.draft = IF ~d.present THEN d ELSE [d EXCEPT !.asignado = name]]

\* the id of the picked candidate, 0 for null
\* faulty variant of pickCandidateFromPollVote: any selected option stands for
\* the first candidate
pickFirstCandidate(pending, vote) ==
  IF vote.selectedOptionIds # <<>> THEN pending.candidates[1]
  ELSE IF vote.selectedOptionNames # <<>>
  THEN matchCandidateInput(vote.selectedOptionNames[1], pending.candidates)
  ELSE 0

pickCandidateFromPollVote(pending, vote) ==
  IF /\ vote.selectedOptionIds # <<>>
     /\ vote.selectedOptionIds[1] >= 0
     /\ vote.selectedOptionIds[1] < Len(pending.candidates)
  THEN pending.candidates[vote.selectedOptionIds[1] + 1]
  ELSE IF vote.selectedOptionNames # <<>>
  THEN matchCandidateInput(vote.selectedOptionNames[1], pending.candidates)
  ELSE 0

\* handleMessage, lines 393-402: the selection has just been resolved
AfterSel(st, i) ==
  IF H(st, i).isEnd THEN finalizeSession(st, i) ELSE Finish(st, i)

AfterSelResolved(st, i) ==
  IF S(st, i).draft.isComplete /\ S(st, i).ticketId = 0
  THEN tryCreateTicket(st, i, "sel")
  ELSE AfterSel(st, i)

resolvePendingSelection(st, i) ==
  LET h == H(st, i)
      s == S(st, i)
      pending == s.pendingSelection
      input == Trim(h.body.text)
      candidate == matchCandidateInput(input, pending.candidates)
  IN  IF input = <<>>
      THEN \* not resolved, nothing sent; handleMessage answers an end command
           IF h.isEnd THEN AwaitChannel(st, i, "endPrompt", 0, 1, "") ELSE Finish(st, i)
      ELSE IF candidate = 0
      THEN IF h.isEnd THEN AwaitChannel(st, i, "endPrompt", 1, 2, "")
           ELSE AwaitChannel(st, i, "finish", 1, 1, "")
      ELSE AwaitChannel(
             SetS(st, i, [applyResolvedCandidate(s, pending.role, candidate)
                            EXCEPT !.pendingSelection = NoPending]),
             i, "selResolved", 1, 1, "")

\* faulty variant of PendingBranch: an end command finalizes the session
\* although a selection is open
PendingBranchFinalizing(st, i) ==
  LET h == H(st, i)
      pending == S(st, i).pendingSelection
  IN  IF ~pending.open THEN Throw(st, i)
      ELSE IF h.isEnd THEN finalizeSession(st, i)
      ELSE IF pending.awaitingPoll \/ pending.pollMessageId # 0 THEN Finish(st, i)
      ELSE resolvePendingSelection(st, i)

\* handleMessage, lines 361-392: the branch of an open selection, after the
\* media of the message (if any) has been handled
PendingBranch(st, i) ==
  LET h == H(st, i)
      pending == S(st, i).pendingSelection
  IN  IF ~pending.open
      THEN Throw(st, i) \* session.pendingSelection is null by now: TypeError
      ELSE IF pending.awaitingPoll \/ pending.pollMessageId # 0
      THEN IF h.isEnd THEN AwaitChannel(st, i, "endPrompt", 0, 1, "") ELSE Finish(st, i)
      ELSE resolvePendingSelection(st, i)

\* the object that a session literal evaluates to: one nothing refers to
NewObject(st) ==
  CHOOSE o \in DOMAIN st.heap :
    /\ ~Live(st, o)
    /\ \A p \in DOMAIN st.heap : ~Live(st, p) => o <= p

\* faulty variant of RejectUnauthorized: the session found under the key is
\* left in the store
RejectKeepingSession(st, i) ==
  IF H(st, i).isStart THEN AwaitChannel(st, i, "finish", 0, 1, "")
  ELSE Finish(st, i)

\* faulty variant of RejectUnauthorized: the rejection answers every message
RejectAlwaysReplying(st, i) ==
  AwaitChannel([st EXCEPT !.sessions[H(st, i).key] = 0], i, "finish", 0, 1, "")

\* faulty variant of RejectUnauthorized: the whole store is emptied
RejectClearingStore(st, i) ==
  LET st1 == [st EXCEPT !.sessions = [k \in DOMAIN @ |-> 0]]
  IN  IF H(st, i).isStart THEN AwaitChannel(st1, i, "finish", 0, 1, "")
      ELSE Finish(st1, i)

\* handleMessage, lines 311-319: the sender is not authorized
RejectUnauthorized(st, i) ==
  LET st1 == [st EXCEPT !.sessions[H(st, i).key] = 0]
  IN  IF H(st, i).isStart THEN AwaitChannel(st1, i, "finish", 0, 1, "")
      ELSE Finish(st1, i)

\* faulty variant of StartSession: a session found under the key is kept
StartSessionReusing(st, i) ==
  LET session == IF H(st, i).sid # 0 THEN H(st, i).sid ELSE NewObject(st)
      st1 == IF H(st, i).sid # 0 THEN st
             ELSE [st EXCEPT !.heap[session] = NewSession,
                             !.createdCount[session] = 0,
                             !.sessions[H(st, i).key] = session,
                             !.handlers[i].sid = session]
  IN  IF H(st, i).body.text = <<>>
      THEN AwaitChannel(st1, i, "afterText", 1, 1, "")
      ELSE AwaitChannel(st1, i, "startText", 1, 0, "")

\* handleMessage, lines 321-335: the start command of an authorized sender
StartSession(st, i) ==
  LET session == NewObject(st)
      st1 == [st EXCEPT !.heap[session] = NewSession,
                        !.createdCount[session] = 0,
                        !.sessions[H(st, i).key] = session,
                        !.handlers[i].sid = session]
  IN  IF H(st, i).body.text = <<>>
      THEN AwaitChannel(st1, i, "afterText", 1, 1, "")
      ELSE AwaitChannel(st1, i, "startText", 1, 0, "")

\* handleMessage from its first line; the handler record holds the message
handleMessage(st, i) ==
  LET h == H(st, i) IN
  IF ~h.auth THEN RejectUnauthorized(st, i)
  ELSE IF h.isStart THEN StartSession(st, i)
  ELSE IF h.sid = 0
  THEN IF h.isEnd THEN AwaitChannel(st, i, "finish", 0, 1, "") ELSE Finish(st, i)
  ELSE IF S(st, i).pendingSelection.open
  THEN IF h.hasMedia THEN handleMedia(st, i, "pend") ELSE PendingBranch(st, i)
  ELSE IF h.hasMedia THEN handleMedia(st, i, "plain")
  ELSE IF h.isEnd THEN finalizeSession(st, i)
  ELSE handleText(st, i)

\* faulty variant of handlePollVote: the poll of the vote is not compared with
\* the poll of the selection
handlePollVoteOnAnyPoll(st, i) ==
  LET h == H(st, i)
      s == S(st, i)
      pending == s.pendingSelection
      candidate == pickCandidateFromPollVote(pending, h.vote)
  IN  IF h.sid = 0 THEN Finish(st, i)
      ELSE IF ~pending.open THEN Finish(st, i)
      ELSE IF candidate = 0 THEN AwaitChannel(st, i, "voteAgain", 0, 1, "")
      ELSE AwaitChannel(
             SetS(st, i, [applyResolvedCandidate(s, pending.role, candidate)
                            EXCEPT !.pendingSelection = NoPending]),
             i, "voteResolved", 0, 1, "")

handlePollVote(st, i) ==
  LET h == H(st, i)
      s == S(st, i)
      pending == s.pendingSelection
      candidate == pickCandidateFromPollVote(pending, h.vote)
  IN  IF h.sid = 0 THEN Finish(st, i)
      ELSE IF ~pending.open THEN Finish(st, i)
      ELSE IF pending.pollMessageId = 0 THEN Finish(st, i)
      ELSE IF h.vote.pollMessageId = 0 \/ pending.pollMessageId # h.vote.pollMessageId
      THEN Finish(st, i)
      ELSE IF candidate = 0 THEN AwaitChannel(st, i, "voteAgain", 0, 1, "")
      ELSE AwaitChannel(
             SetS(st, i, [applyResolvedCandidate(s, pending.role, candidate)
                            EXCEPT !.pendingSelection = NoPending]),
             i, "voteResolved", 0, 1, "")

AfterVoteResolved(st, i) ==
  IF S(st, i).draft.isComplete /\ S(st, i).ticketId = 0
  THEN tryCreateTicket(st, i, "vote")
  ELSE Finish(st, i)

\* faulty variant of handleText: a parsed value is written only into a field
\* that is empty
handleTextFillingEmpty(st, i) ==
  LET h == H(st, i)
      s == S(st, i)
      d == s.draft
      parsed == parseTicketText(h.body)
      mergedSolicitante == Or(d.solicitante, parsed.solicitante)
      mergedProblema == Or(d.problema, parsed.problema)
      merged ==
        [present |-> TRUE,
         solicitante |-> mergedSolicitante,
         asignado |-> Or(d.asignado, parsed.asignado),
         problema |-> mergedProblema,
         categoria |-> Or(d.categoria, DefaultCategoryName),
         nombre |-> Or(d.nombre, parsed.nombre),
         dni |-> Or(d.dni, parsed.dni),
         correo |-> Or(d.correo, parsed.correo),
         rawText |-> h.body.text,
         isComplete |-> mergedSolicitante # <<>> /\ mergedProblema # <<>>]
      s1 == [s EXCEPT !.draft = merged, !.awaitingText = FALSE]
      st1 == SetS(st, i, s1)
  IN  IF ~parsed.present
      THEN IF s.awaitingText THEN AwaitChannel(st, i, "afterText", 1, 1, "")
           ELSE AfterHandleText(st, i)
      ELSE IF ~merged.isComplete THEN AwaitChannel(st1, i, "afterText", 1, 1, "")
      ELSE IF s1.ticketId = 0 THEN tryCreateTicket(st1, i, "text")
      ELSE AfterHandleText(st1, i)

handleText(st, i) ==
  LET h == H(st, i)
      s == S(st, i)
      d == s.draft
      parsed == parseTicketText(h.body)
      mergedSolicitante == Or(parsed.solicitante, d.solicitante)
      mergedProblema == Or(parsed.problema, d.problema)
      merged ==
        [present |-> TRUE,
         solicitante |-> mergedSolicitante,
         asignado |-> Or(parsed.asignado, d.asignado),
         problema |-> mergedProblema,
         categoria |-> Or(d.categoria, DefaultCategoryName),
         nombre |-> Or(parsed.nombre, d.nombre),
         dni |-> Or(parsed.dni, d.dni),
         correo |-> Or(parsed.correo, d.correo),
         rawText |-> h.body.text,
         isComplete |-> mergedSolicitante # <<>> /\ mergedProblema # <<>>]
      s1 == [s EXCEPT
              !.resolvedRequesterId =
                 IF parsed.solicitante # <<>> /\ parsed.solicitante # d.solicitante
                 THEN 0 ELSE @,
              !.resolvedAssigneeId =
                 IF parsed.asignado # <<>> /\ parsed.asignado # d.asignado
                 THEN 0 ELSE @,
              !.draft = merged,
              !.awaitingText = FALSE]
      st1 == SetS(st, i, s1)
  IN  IF ~parsed.present
      THEN IF s.awaitingText THEN AwaitChannel(st, i, "afterText", 1, 1, "")
           ELSE AfterHandleText(st, i)
      ELSE IF ~merged.isComplete THEN AwaitChannel(st1, i, "afterText", 1, 1, "")
      ELSE IF s1.ticketId = 0 THEN tryCreateTicket(st1, i, "text")
      ELSE AfterHandleText(st1, i)

\* handleText has returned: handleMessage, lines 344-347 for a start command
AfterHandleText(st, i) ==
  IF H(st, i).isStart /\ H(st, i).hasMedia
  THEN handleMedia(st, i, "start")
  ELSE Finish(st, i)

handleMedia(st, i, mctx) == AwaitMedia(st, i, mctx)

\* faulty variant of MediaDownloaded: the media is buffered whether or not
\* the ticket exists
MediaAlwaysBuffered(st, i) ==
  AwaitChannel(SetS(st, i, [S(st, i) EXCEPT !.attachments = Append(@, H(st, i).att)]),
               i, "mediaHint", 1, 0, "")

\* handleMedia, lines 535-546: getMedia has returned the media
MediaDownloaded(st, i) ==
  LET h == H(st, i)
      s == S(st, i)
  IN  IF s.ticketId = 0
      THEN AwaitChannel(SetS(st, i, [s EXCEPT !.attachments = Append(@, h.att)]),
                        i, "mediaHint", 1, 0, "")
      ELSE SetH(st, i, [h EXCEPT !.pc = "upload", !.k = "media",
                                 !.tid = s.ticketId, !.backend = 1])

\* handleMedia has returned
AfterHandleMedia(st, i) ==
  LET h == H(st, i) IN
  IF h.mctx = "start" THEN Finish(st, i)
  ELSE IF h.mctx = "pend" THEN PendingBranch(st, i)
  ELSE IF h.isEnd THEN finalizeSession(st, i)
  ELSE Finish(st, i)

\* faulty variant of finalizeSession: a draft that is absent or incomplete is
\* handed to the ticket creation
finalizeSessionAlwaysCreating(st, i) ==
  LET s == S(st, i)
      st1 == SetH(st, i, [H(st, i) EXCEPT !.ctx = "fin"])
  IN  IF s.ticketId = 0 THEN tryCreateTicket(st, i, "fin")
      ELSE uploadPendingAttachments(st1, i)

\* finError and finDelete: the reaction and the reply after which the session
\* is deleted, for a draft that cannot become a ticket and for a finalized
\* ticket
finalizeSession(st, i) ==
  LET s == S(st, i)
      st1 == SetH(st, i, [H(st, i) EXCEPT !.ctx = "fin"])
  IN  IF ~s.draft.present \/ ~s.draft.isComplete
      THEN AwaitChannel(st, i, "finError", 1, 1, "")
      ELSE IF s.ticketId = 0 THEN tryCreateTicket(st, i, "fin")
      ELSE uploadPendingAttachments(st1, i)

\* faulty variant of tryCreateTicket: isEnabled() is not asked
tryCreateTicketUnchecked(st, i, ctx) ==
  LET s == S(st, i)
      st1 == SetH(st, i, [H(st, i) EXCEPT !.ctx = ctx, !.reqId = 0, !.asgId = 0,
                                          !.draft0 = s.draft, !.searched = FALSE])
  IN  IF ~s.draft.present THEN AfterTryCreate(st1, i, FALSE)
      ELSE resolveUserId(st1, i, "solicitante", s.draft.solicitante)

\* tryCreateTicket up to the first awaited call; ctx names the caller
tryCreateTicket(st, i, ctx) ==
  LET s == S(st, i)
      st1 == SetH(st, i, [H(st, i) EXCEPT !.ctx = ctx, !.reqId = 0, !.asgId = 0,
                                          !.draft0 = s.draft, !.searched = FALSE])
  IN  IF ~s.draft.present THEN AfterTryCreate(st1, i, FALSE)
      ELSE IF ~st.glpiEnabled
      THEN AwaitChannel(SetH(st1, i, [H(st1, i) EXCEPT
                                        !.notConfigured = IF @ < 2 THEN @ + 1 ELSE @]),
                        i, "notConfigured", 1, 1, "")
      ELSE resolveUserId(st1, i, "solicitante", s.draft.solicitante)

\* the awaited backend search of resolveUserId
AwaitSearch(st, i, role, byDni, strict) ==
  SetH(st, i, [H(st, i) EXCEPT !.pc = "search", !.role = role, !.byDni = byDni,
                               !.strict = strict, !.backend = 1, !.searched = TRUE])

\* faulty variant of resolveUserId: the cached id is not looked at
resolveUserIdUncached(st, i, role, value) ==
  LET trimmed == Trim(value)
      tokens == CountTokens(trimmed)
      st1 == SetH(st, i, [H(st, i) EXCEPT !.role = role])
  IN  IF trimmed = <<>>
      THEN IF role = "solicitante"
           THEN SetH(st, i, [H(st, i) EXCEPT !.pc = "defaultRequester", !.role = role,
                                             !.backend = 1, !.searched = TRUE])
           ELSE AfterResolve(st, i, role, 0)
      ELSE IF extractDni(trimmed) # <<>> THEN AwaitSearch(st, i, role, TRUE, FALSE)
      ELSE IF role = "solicitante" /\ tokens < 2
      THEN AwaitChannel(st1, i, "resolveNull", 0, 1, "")
      ELSE IF role = "solicitante" THEN AwaitSearch(st, i, role, FALSE, TRUE)
      ELSE AwaitSearch(st, i, role, FALSE, tokens >= 2)

resolveUserId(st, i, role, value) ==
  LET s == S(st, i)
      cached == IF role = "solicitante" THEN s.resolvedRequesterId
                ELSE s.resolvedAssigneeId
      trimmed == Trim(value)
      tokens == CountTokens(trimmed)
      st1 == SetH(st, i, [H(st, i) EXCEPT !.role = role])
  IN  IF cached # 0 THEN AfterResolve(st, i, role, cached)
      ELSE IF trimmed = <<>>
      THEN IF role = "solicitante"
           THEN SetH(st, i, [H(st, i) EXCEPT !.pc = "defaultRequester", !.role = role,
                                             !.backend = 1, !.searched = TRUE])
           ELSE AfterResolve(st, i, role, 0)
      ELSE IF extractDni(trimmed) # <<>> THEN AwaitSearch(st, i, role, TRUE, FALSE)
      ELSE IF role = "solicitante" /\ tokens < 2
      THEN AwaitChannel(st1, i, "resolveNull", 0, 1, "")
      ELSE IF role = "solicitante" THEN AwaitSearch(st, i, role, FALSE, TRUE)
      ELSE AwaitSearch(st, i, role, FALSE, tokens >= 2)

\* the react and sendPoll calls of the prompt are awaited as one step
promptCandidateSelection(st, i, role, candidates) ==
  LET s == S(st, i)
      h == H(st, i)
      limited == SubSeq(candidates, 1,
                        IF Len(candidates) < MAX_SELECTION_CANDIDATES
                        THEN Len(candidates) ELSE MAX_SELECTION_CANDIDATES)
  IN  IF s.pendingSelection.open THEN AfterResolve(st, i, role, 0)
      ELSE SetH(SetS(st, i, [s EXCEPT !.pendingSelection =
                                [open |-> TRUE, role |-> role, candidates |-> limited,
                                 pollMessageId |-> 0, awaitingPoll |-> TRUE]]),
                i, [h EXCEPT !.pc = "sendPoll",
                             !.tryCtx = IF h.byDni THEN "dni" ELSE "",
                             !.channel = 1])

\* candidates is the sequence of user ids the search returned
handleCandidateResults(st, i, role, candidates) ==
  IF Len(candidates) = 0
  THEN AwaitChannel(SetH(st, i, [H(st, i) EXCEPT !.role = role]), i, "resolveNull", 1, 1,
                    IF H(st, i).byDni THEN "dni" ELSE "")
  ELSE IF Len(candidates) = 1
  THEN AfterResolve(SetS(st, i, applyResolvedCandidate(S(st, i), role, candidates[1])),
                    i, role, candidates[1])
  ELSE promptCandidateSelection(st, i, role, candidates)

\* faulty variant of AfterResolve: a requester that was not resolved does not
\* end the attempt
AfterResolveCreatingAnyway(st, i, role, id) ==
  LET h == H(st, i)
      s == S(st, i)
      assigneeValue == Or(s.draft.asignado, h.tech)
      create(st1) ==
        SetH(st1, i, [H(st1, i) EXCEPT !.pc = "createTicket", !.role = "",
                                       !.byDni = FALSE, !.strict = FALSE,
                                       !.backend = 1])
  IN  IF role = "solicitante"
      THEN IF assigneeValue # <<>> /\ id # 0
           THEN resolveUserId(SetH(st, i, [h EXCEPT !.reqId = id]), i, "tecnico",
                              assigneeValue)
           ELSE create(SetH(st, i, [h EXCEPT !.reqId = id]))
      ELSE IF id = 0 THEN AfterTryCreate(st, i, FALSE)
      ELSE create(SetH(st, i, [h EXCEPT !.asgId = id]))

\* tryCreateTicket, lines 611-642: resolveUserId has returned id (0: null)
AfterResolve(st, i, role, id) ==
  LET h == H(st, i)
      s == S(st, i)
      assigneeValue == Or(s.draft.asignado, h.tech)
      create(st1) ==
        SetH(st1, i, [H(st1, i) EXCEPT !.pc = "createTicket", !.role = "",
                                       !.byDni = FALSE, !.strict = FALSE,
                                       !.backend = 1])
  IN  IF id = 0 THEN AfterTryCreate(st, i, FALSE)
      ELSE IF role = "solicitante"
      THEN IF assigneeValue # <<>>
           THEN resolveUserId(SetH(st, i, [h EXCEPT !.reqId = id]), i, "tecnico",
                              assigneeValue)
           ELSE create(SetH(st, i, [h EXCEPT !.reqId = id]))
      ELSE create(SetH(st, i, [h EXCEPT !.asgId = id]))

\* tryCreateTicket has returned created to its caller
AfterTryCreate(st, i, created) ==
  LET h == H(st, i)
      st1 == SetH(st, i, [h EXCEPT !.role = "", !.byDni = FALSE, !.strict = FALSE,
                                   !.tryCtx = "", !.reqId = 0, !.asgId = 0])
  IN  IF h.ctx = "fin"
      THEN IF created THEN uploadPendingAttachments(st1, i) ELSE Finish(st1, i)
      ELSE IF created THEN uploadPendingAttachments(st1, i)
      ELSE AfterUpload(st1, i)

\* the awaited upload of the head of the handler's copy of the buffer
NextUpload(st, i) ==
  SetH(st, i, [H(st, i) EXCEPT !.pc = "upload", !.k = "flush",
                               !.tid = S(st, i).ticketId, !.backend = 1])

\* faulty variant of uploadPendingAttachments: the buffer is not emptied
\* when its copy is taken
uploadPendingAttachmentsKeepingBuffer(st, i) ==
  LET s == S(st, i) IN
  IF s.ticketId = 0 \/ s.attachments = <<>> THEN AfterUpload(st, i)
  ELSE NextUpload(SetH(st, i, [H(st, i) EXCEPT !.queue = s.attachments]), i)

\* uploadPendingAttachments, lines 971-985: the buffer is copied and emptied
\* before the first upload is awaited
uploadPendingAttachments(st, i) ==
  LET s == S(st, i) IN
  IF s.ticketId = 0 \/ s.attachments = <<>> THEN AfterUpload(st, i)
  ELSE NextUpload(SetH(SetS(st, i, [s EXCEPT !.attachments = <<>>]),
                       i, [H(st, i) EXCEPT !.queue = s.attachments]), i)

\* what follows the call of uploadPendingAttachments (or its being skipped)
\* in the caller named by ctx
AfterUpload(st, i) ==
  LET h == H(st, i) IN
  IF h.ctx = "text" THEN AfterHandleText(st, i)
  ELSE IF h.ctx = "sel" THEN AfterSel(st, i)
  ELSE IF h.ctx = "vote" THEN Finish(st, i)
  ELSE AwaitChannel(st, i, "finDelete", 1, 1, "")

\* ------------------------------------------------------------- GlpiClient
\* The client keeps one session token and one login promise for each of its
\* three sessions: the plain one (sessionToken, sessionPromise), the one of
\* the ticket profile (profileSessionToken, profileSessionPromise) and the one
\* of the search profile (searchProfileSessionToken,
\* searchProfileSessionPromise).  A login is one such promise; the token that
\* its initSession returns is named by the login's number.
Kinds == {"session", "profile", "search"}
LoginIds == 1..MaxLogins
\* one step starts at most two logins: that of a profile and the plain one of
\* its getMyProfiles request
LoginSlots == 1..(MaxLogins + 2)
\* a request of a caller, or the getMyProfiles request of login l
CallerIds == 1..MaxRequests
RequestIds == 1..(MaxRequests + MaxLogins + 2)
ProfilesRequest(l) == MaxRequests + l

\* config.ts, line 154: the profile name is never empty
ProfileName == "OPERADOR"

\* pc: "session" awaits the promise of ensure...Session, "sent" awaits the
\* response.  sends counts the fetches of the request, logins the logins that
\* its calls of ensure...Session have started, and stale is the token that an
\* invalid-session response has refused.
NoRequest ==
  [pc |-> "idle", fn |-> "", useProfile |-> FALSE, retry |-> TRUE, promise |-> 0,
   token |-> 0, sends |-> 0, logins |-> 0, stale |-> 0]

\* pc: "profiles" awaits getMyProfiles, "init" the response of initSession,
\* "change" that of changeActiveProfile
NoLogin == [pc |-> "none", kind |-> "", token |-> 0]

NewGlpiClient(profileId, searchProfileId) ==
  [profileId |-> profileId, profileName |-> ProfileName,
   searchProfileId |-> searchProfileId, searchProfileName |-> "",
   sessionToken |-> [k \in Kinds |-> 0],
   sessionPromise |-> [k \in Kinds |-> 0],
   logins |-> [l \in LoginSlots |-> NoLogin],
   requests |-> [r \in RequestIds |-> NoRequest],
   nextLogin |-> 1]

\* the call awaits promise l, started by it or found in flight
Await(g, r, l, started) ==
  [g EXCEPT !.requests[r].pc = "session", !.requests[r].promise = l,
            !.requests[r].logins = IF started THEN @ + 1 ELSE @]

\* requestWithSession, line 395: the fetch of request r with the token
Send(g, r, token) ==
  [g EXCEPT !.requests[r].pc = "sent", !.requests[r].token = token,
            !.requests[r].promise = 0, !.requests[r].sends = @ + 1]

\* the finally of a login promise clears the promise field of its session,
\* whichever promise the field holds by then
Settle(g, l, pc) ==
  [g EXCEPT !.logins[l].pc = pc, !.sessionPromise[g.logins[l].kind] = 0]

\* initSession up to its fetch; it throws when the client is disabled
initSession(g, l, enabled) ==
  IF enabled THEN [g EXCEPT !.logins[l].pc = "init"] ELSE Settle(g, l, "rejected")

\* ensureSession called for request r
ensureSession(g, r, enabled) ==
  LET l == g.nextLogin IN
  IF g.sessionToken["session"] # 0 THEN Send(g, r, g.sessionToken["session"])
  ELSE IF g.sessionPromise["session"] = 0
  THEN Await(initSession([g EXCEPT !.sessionPromise["session"] = l,
                                   !.logins[l] = [NoLogin EXCEPT !.kind = "session"],
                                   !.nextLogin = l + 1], l, enabled),
             r, l, TRUE)
  ELSE Await(g, r, g.sessionPromise["session"], FALSE)

\* request, useProfile false, from its first line
requestPlain(g, r, retry, enabled) ==
  ensureSession([g EXCEPT !.requests[r].pc = "session", !.requests[r].fn = "request",
                          !.requests[r].useProfile = FALSE,
                          !.requests[r].retry = retry], r, enabled)

\* ensureProfileSession and ensureSearchProfileSession (kind names which)
\* called for request r
ensureProfileSession(g, r, kind, enabled) ==
  LET l == g.nextLogin
      profileId == IF kind = "profile" THEN g.profileId ELSE g.searchProfileId
      profileName == IF kind = "profile" THEN g.profileName ELSE g.searchProfileName
      g1 == [g EXCEPT !.sessionPromise[kind] = l,
                      !.logins[l] = [NoLogin EXCEPT !.kind = kind],
                      !.nextLogin = l + 1]
  IN  IF profileId = "" /\ profileName = "" THEN ensureSession(g, r, enabled)
      ELSE IF g.sessionToken[kind] # 0 THEN Send(g, r, g.sessionToken[kind])
      ELSE IF g.sessionPromise[kind] # 0 THEN Await(g, r, g.sessionPromise[kind], FALSE)
      ELSE IF profileId # "" THEN Await(initSession(g1, l, enabled), r, l, TRUE)
      \* resolveProfileIdFor, lines 253-268: the profile is looked up by name
      ELSE Await(requestPlain([g1 EXCEPT !.logins[l].pc = "profiles"],
                              ProfilesRequest(l), TRUE, enabled),
                 r, l, TRUE)

\* the session a call uses and, on an invalid-session response, forgets
SessionOf(g, fn, useProfile) ==
  IF fn = "requestForSearch" /\ (g.searchProfileId # "" \/ g.searchProfileName # "")
  THEN "search"
  ELSE IF useProfile THEN "profile" ELSE "session"

\* request, requestForSearch and requestMultipart from their first line
Call(g, r, fn, useProfile, retry, enabled) ==
  LET g1 == [g EXCEPT !.requests[r].pc = "session", !.requests[r].fn = fn,
                      !.requests[r].useProfile = useProfile,
                      !.requests[r].retry = retry]
      kind == SessionOf(g, fn, useProfile)
  IN  IF fn = "requestMultipart" /\ ~enabled
      THEN [g1 EXCEPT !.requests[r].pc = "failed"]
      ELSE IF kind = "session" THEN ensureSession(g1, r, enabled)
      ELSE ensureProfileSession(g1, r, kind, enabled)

\* faulty variant of Response: the call that follows an invalid-session
\* response may itself retry
ResponseRetryingAgain(g, r, outcome, enabled) ==
  LET q == g.requests[r]
      kind == SessionOf(g, q.fn, q.useProfile)
  IN  IF outcome = "ok" THEN [g EXCEPT !.requests[r].pc = "done"]
      ELSE IF outcome = "invalid" /\ q.retry
      THEN Call([g EXCEPT !.sessionToken[kind] = 0, !.sessionPromise[kind] = 0,
                          !.requests[r].stale = q.token],
                r, q.fn, q.useProfile, TRUE, enabled)
      ELSE [g EXCEPT !.requests[r].pc = "failed"]

\* request, lines 420-443 (requestForSearch 461-478, requestMultipart
\* 506-527): the response has arrived
Response(g, r, outcome, enabled) ==
  LET q == g.requests[r]
      kind == SessionOf(g, q.fn, q.useProfile)
  IN  IF outcome = "ok" THEN [g EXCEPT !.requests[r].pc = "done"]
      ELSE IF outcome = "invalid" /\ q.retry
      THEN Call([g EXCEPT !.sessionToken[kind] = 0, !.sessionPromise[kind] = 0,
                          !.requests[r].stale = q.token],
                r, q.fn, q.useProfile, FALSE, enabled)
      ELSE [g EXCEPT !.requests[r].pc = "failed"]

\* ----------------------------------------------------------------- actions
Init ==
  /\ sessions = [k \in Keys |-> 0]
  /\ heap = [o \in SessionIds |-> NewSession]
  /\ handlers = [i \in HandlerIds |-> Idle]
  /\ pollMessages = {}
  /\ createdCount = [o \in SessionIds |-> 0]
  /\ uploadErrors = 0
  /\ unanswered = {}
  /\ fnInput = <<>>
  /\ fnOutput = NoOutput
  /\ nextTicket = 1
  /\ nextPoll = 1
  /\ events = 0
  /\ faults = 0
  /\ glpiEnabled \in BOOLEAN
  /\ glpi = NewGlpiClient("", "")

\* The event emitter calls a listener for every event without awaiting the
\* promise of an earlier call: a new invocation starts in any free slot.
FreeSlot(i) ==
  /\ handlers[i].pc = "idle"
  /\ \A j \in 1..(i - 1) : handlers[j].pc # "idle"

\* the media objects that neither a buffer nor a handler holds; a message
\* with media carries the first of them
FreeMedia ==
  {a \in 1..MaxMedia :
     /\ \A o \in SessionIds : \A n \in 1..Len(heap[o].attachments) :
           heap[o].attachments[n] # a
     /\ \A j \in HandlerIds :
           /\ handlers[j].att # a
           /\ \A n \in 1..Len(handlers[j].queue) : handlers[j].queue[n] # a}

NewMedia == CHOOSE a \in FreeMedia : \A b \in FreeMedia : a <= b

Messages ==
  [sender : Senders, cmd : {"start", "end", "none"}, body : Bodies, hasMedia : BOOLEAN]

AuthorizedSenders == {sender \in Senders : isAuthorizedSender(sender)}

\* messages.upsert listener -> app.ts handler -> TicketFlow.handleMessage
DeliverMessage(i, m) ==
  /\ FreeSlot(i)
  /\ events < MaxEvents
  /\ m.hasMedia => FreeMedia # {}
  /\ (m.cmd = "start" /\ isAuthorizedSender(m.sender))
       => {o \in SessionIds : ~Live(State, o)} # {}
  /\ LET key == buildSessionKey(m.sender)
         h == [Idle EXCEPT !.kind = "msg", !.key = key, !.sid = sessions[key],
                           !.auth = isAuthorizedSender(m.sender),
                           !.isStart = (m.cmd = "start"), !.isEnd = (m.cmd = "end"),
                           !.hasMedia = m.hasMedia, !.body = m.body,
                           !.tech = resolveTechnicianFromSender(m.sender),
                           !.att = IF m.hasMedia THEN NewMedia ELSE 0]
         st == [State EXCEPT !.events = @ + 1, !.handlers[i] = h]
     IN  Becomes(handleMessage(st, i))

\* the option names a vote carries are those of the poll it answers
VoteNames(key, pollId, ids) ==
  LET sid == sessions[key]
      p == heap[sid].pendingSelection
  IN  IF sid # 0 /\ p.open /\ p.pollMessageId = pollId /\ ids # <<>>
         /\ ids[1] < Len(p.candidates)
      THEN <<buildCandidateOptionNames(p.candidates)[ids[1] + 1]>>
      ELSE <<>>

\* messages.update listener -> app.ts handler -> TicketFlow.handlePollVote
DeliverPollVote(i, sender, pollId, ids) ==
  /\ FreeSlot(i)
  /\ events < MaxEvents
  /\ pollId \in pollMessages
  /\ LET key == buildSessionKey(sender)
         voter == [sender EXCEPT !.senderLabel = VoteLabel]
         h == [Idle EXCEPT !.kind = "vote", !.key = key, !.sid = sessions[key],
                           !.auth = TRUE,
                           !.vote = [pollMessageId |-> pollId,
                                     selectedOptionIds |-> ids,
                                     selectedOptionNames |-> VoteNames(key, pollId, ids)],
                           !.tech = resolveTechnicianFromSender(voter)]
         st == [State EXCEPT !.events = @ + 1, !.handlers[i] = h]
     IN  Becomes(handlePollVote(st, i))

\* the awaited reactions and replies have been sent
ChannelReturns(i) ==
  /\ handlers[i].pc = "channel"
  /\ LET st == State
         k == handlers[i].k
     IN  Becomes(
           CASE k \in {"finish", "endPrompt", "voteAgain"} -> Finish(st, i)
             [] k = "startText" -> handleText(st, i)
             [] k = "afterText" -> AfterHandleText(st, i)
             [] k = "mediaHint" ->
                  IF S(st, i).awaitingText
                  THEN AwaitChannel(st, i, "afterMedia", 0, 1, "")
                  ELSE AfterHandleMedia(st, i)
             [] k = "afterMedia" -> AfterHandleMedia(st, i)
             [] k \in {"resolveNull", "candidateList"} ->
                  AfterResolve(st, i, handlers[i].role, 0)
             [] k \in {"createFalse", "notConfigured"} -> AfterTryCreate(st, i, FALSE)
             [] k = "createTrue" -> AfterTryCreate(st, i, TRUE)
             [] k = "selResolved" -> AfterSelResolved(st, i)
             [] k = "voteResolved" -> AfterVoteResolved(st, i)
             [] OTHER -> \* finError, finDelete: this.sessions.delete(sessionKey)
                  Finish([st EXCEPT !.sessions[handlers[i].key] = 0], i))

\* an awaited react or reply throws
ChannelThrows(i) ==
  /\ handlers[i].pc = "channel"
  /\ faults < MaxFaults
  /\ LET st == Failed([State EXCEPT !.faults = @ + 1], i, "channel")
         t == handlers[i].tryCtx
     IN  Becomes(
           IF t = "dni" THEN AwaitChannel(st, i, "resolveNull", 0, 1, "")
           ELSE IF t = "create" THEN AwaitChannel(st, i, "createFalse", 1, 1, "")
           ELSE Throw(st, i))

\* getMedia returns the media (downloaded = TRUE) or null
GetMediaReturns(i, downloaded) ==
  /\ handlers[i].pc = "getMedia"
  /\ Becomes(IF downloaded THEN MediaDownloaded(State, i)
             ELSE AwaitChannel(State, i, "afterMedia", 1, 1, ""))

GetMediaThrows(i) ==
  /\ handlers[i].pc = "getMedia"
  /\ faults < MaxFaults
  /\ Becomes(Throw(Failed([State EXCEPT !.faults = @ + 1], i, "getMedia"), i))

\* promptCandidateSelection, lines 851-867: sendPoll has returned the id of
\* the poll (delivered = TRUE) or null
SendPollReturns(i, delivered) ==
  /\ handlers[i].pc = "sendPoll"
  /\ LET h == handlers[i]
         s == heap[h.sid]
         pollMessageId == IF delivered THEN nextPoll ELSE 0
         st == [State EXCEPT
                 !.nextPoll = IF delivered THEN @ + 1 ELSE @,
                 \* only the sendPoll of a message registers the poll for votes
                 !.pollMessages = IF delivered /\ h.kind = "msg"
                                  THEN @ \cup {nextPoll} ELSE @,
                 !.heap[h.sid].pendingSelection.pollMessageId = pollMessageId,
                 !.heap[h.sid].pendingSelection.awaitingPoll = FALSE]
     IN  IF ~s.pendingSelection.open
         THEN Becomes(IF h.tryCtx = "dni"
                      THEN AwaitChannel(State, i, "resolveNull", 0, 1, "")
                      ELSE Throw(State, i))
         ELSE IF delivered THEN Becomes(AfterResolve(st, i, h.role, 0))
         ELSE Becomes(AwaitChannel(st, i, "candidateList", 0, 1, h.tryCtx))

\* the reaction or the sendPoll of the prompt throws
SendPollThrows(i) ==
  /\ handlers[i].pc = "sendPoll"
  /\ faults < MaxFaults
  /\ LET st == Failed([State EXCEPT !.faults = @ + 1], i, "sendPoll")
     IN  Becomes(IF handlers[i].tryCtx = "dni"
                 THEN AwaitChannel(st, i, "resolveNull", 0, 1, "")
                 ELSE Throw(st, i))

\* resolveUserId: the awaited search has returned.  A strict name search that
\* finds nobody is followed at once by the non-strict one, which returns
\* retry; both calls are one step (the handler touches nothing in between).
SearchReturns(i, candidates, retry) ==
  /\ handlers[i].pc \in {"search", "defaultRequester"}
  /\ LET h == handlers[i]
         st == State
         found == IF ~h.byDni /\ candidates = <<>> /\ h.strict THEN retry ELSE candidates
     IN  Becomes(
           IF h.pc = "defaultRequester"
           THEN IF candidates # <<>>
                THEN AfterResolve(
                       SetS(st, i, [S(st, i) EXCEPT !.resolvedRequesterId = candidates[1]]),
                       i, h.role, candidates[1])
                ELSE AwaitChannel(st, i, "resolveNull", 0, 1, "")
           ELSE handleCandidateResults(st, i, h.role, found))

\* the search throws: caught for a national-ID search only
SearchThrows(i) ==
  /\ handlers[i].pc \in {"search", "defaultRequester"}
  /\ LET st == Failed(State, i, "search")
     IN  Becomes(IF handlers[i].pc = "search" /\ handlers[i].byDni
                 THEN AwaitChannel(st, i, "resolveNull", 0, 1, "")
                 ELSE Throw(st, i))

\* glpi.createTicket returns a ticket id (outcome "id"), returns no id
\* ("null") or throws ("throw")
CreateTicketReturns(i, outcome) ==
  /\ handlers[i].pc = "createTicket"
  /\ LET h == handlers[i]
         ticketId == IF outcome = "id" THEN nextTicket ELSE 0
         st == [State EXCEPT
                 !.createdCount[h.sid] = IF outcome = "id" THEN @ + 1 ELSE @,
                 !.nextTicket = IF outcome = "id" THEN @ + 1 ELSE @,
                 !.heap[h.sid].ticketId = IF outcome = "id" THEN ticketId ELSE @]
     IN  Becomes(
           IF outcome = "id" THEN AwaitChannel(st, i, "createTrue", 1, 1, "create")
           ELSE IF outcome = "null" THEN AwaitChannel(st, i, "createFalse", 1, 1, "create")
           ELSE AwaitChannel(Failed(st, i, "createTicket"), i, "createFalse", 1, 1, ""))

\* faulty variant of UploadFailed: the failure invalidates the ticket
UploadFailedUnsetsTicket(st, i) ==
  [Failed(st, i, "upload") EXCEPT
     !.uploadErrors = @ + 1, !.heap[st.handlers[i].sid].ticketId = 0]

\* uploadAttachment, lines 1005-1009: the upload has thrown; the error is
\* logged and false returned
UploadFailed(st, i) == [Failed(st, i, "upload") EXCEPT !.uploadErrors = @ + 1]

\* faulty variant of UploadResult: the upload is counted whether or not it
\* succeeded
UploadResultAlwaysCounted(st, i, uploaded) ==
  IF uploaded THEN [st EXCEPT !.heap[st.handlers[i].sid].uploadedCount = @ + 1]
  ELSE [UploadFailed(st, i) EXCEPT !.heap[st.handlers[i].sid].uploadedCount = @ + 1]

\* the caller of uploadAttachment counts the upload that succeeded
UploadResult(st, i, uploaded) ==
  IF uploaded THEN [st EXCEPT !.heap[st.handlers[i].sid].uploadedCount = @ + 1]
  ELSE UploadFailed(st, i)

\* uploadAttachment returns uploaded (it catches every error of the upload)
UploadReturns(i, uploaded) ==
  /\ handlers[i].pc = "upload"
  /\ LET h == handlers[i]
         st == [UploadResult(State, i, uploaded) EXCEPT
                 !.handlers[i].tid = 0,
                 !.handlers[i].queue = IF h.k = "media" THEN @ ELSE Tail(@)]
     IN  Becomes(
           IF h.k = "media" THEN AwaitChannel(st, i, "afterMedia", 1, 0, "")
           ELSE IF H(st, i).queue # <<>> THEN NextUpload(st, i)
           ELSE AfterUpload(st, i))

Next ==
  \/ \E i \in HandlerIds, m \in Messages : DeliverMessage(i, m)
  \/ \E i \in HandlerIds, sender \in Senders, pollId \in 1..MaxEvents,
        ids \in {<<>>, <<0>>, <<1>>} : DeliverPollVote(i, sender, pollId, ids)
  \/ \E i \in HandlerIds : ChannelReturns(i)
  \/ \E i \in HandlerIds : ChannelThrows(i)
  \/ \E i \in HandlerIds, downloaded \in BOOLEAN : GetMediaReturns(i, downloaded)
  \/ \E i \in HandlerIds : GetMediaThrows(i)
  \/ \E i \in HandlerIds, delivered \in BOOLEAN : SendPollReturns(i, delivered)
  \/ \E i \in HandlerIds : SendPollThrows(i)
  \/ \E i \in HandlerIds, candidates \in SearchResults, retry \in SearchResults :
        SearchReturns(i, candidates, retry)
  \/ \E i \in HandlerIds : SearchThrows(i)
  \/ \E i \in HandlerIds, outcome \in {"id", "null", "throw"} : CreateTicketReturns(i, outcome)
  \/ \E i \in HandlerIds, uploaded \in BOOLEAN : UploadReturns(i, uploaded)

Spec == Init /\ [][Next]_vars

\* The conversation taken up after a start command and two media messages
\* have been handled: the session of the authorized sender holds both media
\* in its buffer and has neither a draft nor a ticket.
InitBuffered ==
  /\ sessions = [k \in Keys |-> 1]
  /\ heap = [o \in SessionIds |->
               IF o = 1 THEN [NewSession EXCEPT !.attachments = <<1, 2>>] ELSE NewSession]
  /\ handlers = [i \in HandlerIds |-> Idle]
  /\ pollMessages = {}
  /\ createdCount = [o \in SessionIds |-> 0]
  /\ uploadErrors = 0
  /\ unanswered = {}
  /\ fnInput = <<>>
  /\ fnOutput = NoOutput
  /\ nextTicket = 1
  /\ nextPoll = 1
  /\ events = 0
  /\ faults = 0
  /\ glpiEnabled \in BOOLEAN
  /\ glpi = NewGlpiClient("", "")

SpecBuffered == InitBuffered /\ [][Next]_vars

\* The same conversation when the phone number of the technician is sometimes
\* resolved by the listener: her events then carry senderNumber, and their
\* session key is the number instead of the sender id.
PhoneSender ==
  [senderId |-> <<"l", "B">>, senderNumber |-> TechPhone,
   senderLabel |-> <<"l", "o", "l", "a", " ", " ", "b", "ó", "a">>]

AllSenders == Senders \cup {PhoneSender}

AllKeys == {buildSessionKey(m) : m \in AllSenders}

AllMessages ==
  [sender : AllSenders, cmd : {"start", "end", "none"}, body : Bodies, hasMedia : BOOLEAN]

InitKeys ==
  /\ sessions = [k \in AllKeys |-> 0]
  /\ heap = [o \in SessionIds |-> NewSession]
  /\ handlers = [i \in HandlerIds |-> Idle]
  /\ pollMessages = {}
  /\ createdCount = [o \in SessionIds |-> 0]
  /\ uploadErrors = 0
  /\ unanswered = {}
  /\ fnInput = <<>>
  /\ fnOutput = NoOutput
  /\ nextTicket = 1
  /\ nextPoll = 1
  /\ events = 0
  /\ faults = 0
  /\ glpiEnabled \in BOOLEAN
  /\ glpi = NewGlpiClient("", "")

NextKeys ==
  \/ \E i \in HandlerIds, m \in AllMessages : DeliverMessage(i, m)
  \/ \E i \in HandlerIds, sender \in AllSenders, pollId \in 1..MaxEvents,
        ids \in {<<>>, <<0>>, <<1>>} : DeliverPollVote(i, sender, pollId, ids)
  \/ \E i \in HandlerIds : ChannelReturns(i)
  \/ \E i \in HandlerIds : ChannelThrows(i)
  \/ \E i \in HandlerIds, downloaded \in BOOLEAN : GetMediaReturns(i, downloaded)
  \/ \E i \in HandlerIds : GetMediaThrows(i)
  \/ \E i \in HandlerIds, delivered \in BOOLEAN : SendPollReturns(i, delivered)
  \/ \E i \in HandlerIds : SendPollThrows(i)
  \/ \E i \in HandlerIds, candidates \in SearchResults, retry \in SearchResults :
        SearchReturns(i, candidates, retry)
  \/ \E i \in HandlerIds : SearchThrows(i)
  \/ \E i \in HandlerIds, outcome \in {"id", "null", "throw"} : CreateTicketReturns(i, outcome)
  \/ \E i \in HandlerIds, uploaded \in BOOLEAN : UploadReturns(i, uploaded)

SpecKeys == InitKeys /\ [][NextKeys]_vars

\* ------------------------------------------------------ GlpiClient, actions
\* the calls that the client's public methods make: createTicket and the
\* document calls use the ticket profile, the user searches the search profile
Calls ==
  { [fn |-> "request", useProfile |-> TRUE],
    [fn |-> "requestMultipart", useProfile |-> TRUE],
    [fn |-> "requestForSearch", useProfile |-> FALSE] }

GBecomes(g) ==
  /\ g.nextLogin <= MaxLogins + 1
  /\ glpi' = g
  /\ UNCHANGED <<flowVars, fnInput, fnOutput>>

\* a method of the client calls request, requestForSearch or requestMultipart
CallRequest(r, c) ==
  /\ glpi.requests[r].pc = "idle"
  /\ \A j \in 1..(r - 1) : glpi.requests[j].pc # "idle"
  /\ GBecomes(Call(glpi, r, c.fn, c.useProfile, TRUE, glpiEnabled))

\* the promise of ensure...Session that request r awaits is settled: the
\* request is sent with the token, or the rejection leaves the request
PromiseSettled(r) ==
  LET q == glpi.requests[r]
      l == q.promise
  IN  /\ q.pc = "session"
      /\ glpi.logins[l].pc \in {"fulfilled", "rejected"}
      /\ GBecomes(IF glpi.logins[l].pc = "fulfilled"
                  THEN Send(glpi, r, glpi.logins[l].token)
                  ELSE [glpi EXCEPT !.requests[r].pc = "failed",
                                    !.requests[r].promise = 0])

\* the backend answers request r: ok, an invalid-session error, another error
ResponseArrives(r, outcome) ==
  /\ glpi.requests[r].pc = "sent"
  /\ GBecomes(Response(glpi, r, outcome, glpiEnabled))

\* the backend answers the initSession of login l
InitSessionResponds(l, ok) ==
  /\ glpi.logins[l].pc = "init"
  /\ LET kind == glpi.logins[l].kind
         g == [glpi EXCEPT !.logins[l].token = l]
     IN  GBecomes(
           IF ~ok THEN Settle(glpi, l, "rejected")
           ELSE IF kind = "session"
           THEN Settle([g EXCEPT !.sessionToken[kind] = l], l, "fulfilled")
           ELSE [g EXCEPT !.logins[l].pc = "change"])

\* ensureProfileSession, lines 300-316: changeActiveProfile is answered
ChangeProfileResponds(l, ok) ==
  /\ glpi.logins[l].pc = "change"
  /\ LET kind == glpi.logins[l].kind
     IN  GBecomes(
           IF ok THEN Settle([glpi EXCEPT !.sessionToken[kind] = glpi.logins[l].token],
                             l, "fulfilled")
           ELSE Settle(glpi, l, "rejected"))

\* resolveProfileIdFor, lines 253-268, and ensureProfileSession, lines
\* 286-297: getMyProfiles has ended; found says whether the profile name is
\* among the profiles
ProfilesResolved(l, found) ==
  /\ glpi.logins[l].pc = "profiles"
  /\ glpi.requests[ProfilesRequest(l)].pc \in {"done", "failed"}
  /\ GBecomes(IF glpi.requests[ProfilesRequest(l)].pc = "done" /\ found
              THEN initSession(glpi, l, glpiEnabled)
              ELSE Settle(glpi, l, "rejected"))

InitGlpi ==
  /\ sessions = [k \in Keys |-> 0]
  /\ heap = [o \in SessionIds |-> NewSession]
  /\ handlers = [i \in HandlerIds |-> Idle]
  /\ pollMessages = {}
  /\ createdCount = [o \in SessionIds |-> 0]
  /\ uploadErrors = 0
  /\ unanswered = {}
  /\ fnInput = <<>>
  /\ fnOutput = NoOutput
  /\ nextTicket = 1
  /\ nextPoll = 1
  /\ events = 0
  /\ faults = 0
  /\ glpiEnabled \in BOOLEAN
  /\ glpi \in {NewGlpiClient(profileId, searchProfileId) :
                 profileId \in {"", "4"}, searchProfileId \in {"", "5"}}

NextGlpi ==
  \/ \E r \in CallerIds, c \in Calls : CallRequest(r, c)
  \/ \E r \in RequestIds : PromiseSettled(r)
  \/ \E r \in RequestIds, outcome \in {"ok", "invalid", "error"} : ResponseArrives(r, outcome)
  \/ \E l \in LoginIds, ok \in BOOLEAN : InitSessionResponds(l, ok)
  \/ \E l \in LoginIds, ok \in BOOLEAN : ChangeProfileResponds(l, ok)
  \/ \E l \in LoginIds, found \in BOOLEAN : ProfilesResolved(l, found)

SpecGlpi == InitGlpi /\ [][NextGlpi]_vars

\* ------------------------------------------------------------------ claims
Busy(i) == handlers[i].pc # "idle"

UnauthorizedMessages == {m \in Messages : m.sender \notin AuthorizedSenders}

\* the start commands of authorized senders
StartMessages == {m \in Messages : m.sender \in AuthorizedSenders /\ m.cmd = "start"}

\* the messages of authorized senders that are read as the reply to an open
\* selection
ReplyMessages ==
  {m \in Messages : m.sender \in AuthorizedSenders /\ m.cmd = "none" /\ ~m.hasMedia}

\* the end commands of authorized senders that carry no media
EndMessages ==
  {m \in Messages : m.sender \in AuthorizedSenders /\ m.cmd = "end" /\ ~m.hasMedia}

\* the session of key k is at rest: the store holds it and no handler works
\* on it
AtRest(k) ==
  /\ sessions[k] # 0
  /\ \A i \in HandlerIds : Busy(i) => handlers[i].sid # sessions[k]

\* C1: for one session, createTicket returns a ticket id at most once.
TicketCreatedAtMostOnce == \A o \in SessionIds : createdCount[o] <= 1

\* C2: two events with the same session key are never processed
\* concurrently: no two handlers in flight hold the same key.
OneHandlerPerKey ==
  \A i, j \in HandlerIds :
    (i # j /\ Busy(i) /\ Busy(j)) => handlers[i].key # handlers[j].key

\* C3: once the ticket of a session exists and the event that created it has
\* been handled, the attachments buffered before it have been handed to the
\* upload and the buffer is empty.
BufferEmptyOnceTicketExists ==
  \A k \in Keys :
    (AtRest(k) /\ heap[sessions[k]].ticketId # 0) => heap[sessions[k]].attachments = <<>>

\* the id that the session caches for a role
ResolvedId(s, role) ==
  IF role = "solicitante" THEN s.resolvedRequesterId ELSE s.resolvedAssigneeId

\* handler i has returned in this step: the later invocations move up
Returned(i) ==
  \A j \in HandlerIds :
    handlers'[j] = IF j < i THEN handlers[j]
                   ELSE IF j < MaxHandlers THEN handlers[j + 1] ELSE Idle

\* C4: an upload that fails leaves the ticket id and uploadedCount as they
\* are and the session in the store, and the handler goes on to the next
\* queued attachment or, in a finalization, to the final reply; no step
\* lowers the uploadedCount of a stored session; an end command for a
\* session with a ticket goes on to the final reply, after which the session
\* is removed.
FailedUploadIsContained ==
  [][/\ \A i \in HandlerIds :
          (handlers[i].pc = "upload" /\ UploadReturns(i, FALSE)) =>
            LET h == handlers[i]
                o == h.sid
            IN  /\ sessions' = sessions
                /\ sessions[h.key] = o =>
                     /\ heap'[o].ticketId = heap[o].ticketId
                     /\ heap'[o].uploadedCount = heap[o].uploadedCount
                /\ (h.k = "flush" /\ Len(h.queue) > 1) =>
                     /\ handlers'[i].pc = "upload"
                     /\ handlers'[i].queue = Tail(h.queue)
                /\ (h.k = "flush" /\ Len(h.queue) = 1 /\ h.ctx = "fin") =>
                     /\ handlers'[i].pc = "channel"
                     /\ handlers'[i].k = "finDelete"
                /\ (h.k = "flush" /\ Len(h.queue) = 1 /\ h.ctx = "text"
                      /\ h.isStart /\ h.hasMedia) =>
                     handlers'[i].pc = "getMedia"
     /\ \A k \in Keys :
          (sessions[k] # 0 /\ sessions'[k] = sessions[k]) =>
            heap'[sessions[k]].uploadedCount >= heap[sessions[k]].uploadedCount
     /\ \A i \in HandlerIds, m \in EndMessages :
          LET o == sessions[buildSessionKey(m.sender)]
          IN  (/\ events' # events
               /\ o # 0 /\ heap[o].ticketId # 0 /\ heap[o].draft.isComplete
               /\ ~heap[o].pendingSelection.open
               /\ DeliverMessage(i, m)) =>
                \/ handlers'[i].pc = "upload" /\ handlers'[i].ctx = "fin"
                \/ handlers'[i].pc = "channel" /\ handlers'[i].k = "finDelete"
     /\ \A i \in HandlerIds :
          (handlers[i].pc = "channel" /\ handlers[i].k = "finDelete"
            /\ ChannelReturns(i)) => sessions'[handlers[i].key] = 0]_vars

\* one upload of the session has failed, another has succeeded, and an end
\* command is finalizing the session, whose ticket id is still set
FailedUploadThenFinalizing ==
  \E i \in HandlerIds :
    /\ uploadErrors > 0
    /\ handlers[i].pc = "channel" /\ handlers[i].k = "finDelete"
    /\ sessions[handlers[i].key] = handlers[i].sid
    /\ heap[handlers[i].sid].ticketId # 0
    /\ heap[handlers[i].sid].uploadedCount > 0

\* C5: when the media of a message has been downloaded and the ticket id of
\* the session is set, the handler calls the upload for that ticket and the
\* media does not enter the buffer, neither then nor when the upload
\* returns; when the ticket id is unset, the media is appended to the buffer
\* and no upload is called.
MediaUploadedOrBuffered ==
  [][\A i \in HandlerIds :
       LET h == handlers[i]
           o == h.sid
           InBuffer == \E n \in 1..Len(heap'[o].attachments) :
                         heap'[o].attachments[n] = h.att
       IN  /\ (h.pc = "getMedia" /\ GetMediaReturns(i, TRUE)) =>
                IF heap[o].ticketId # 0
                THEN /\ handlers'[i].pc = "upload"
                     /\ handlers'[i].k = "media"
                     /\ handlers'[i].tid = heap[o].ticketId
                     /\ handlers'[i].att = h.att
                     /\ heap'[o].attachments = heap[o].attachments
                     /\ ~InBuffer
                ELSE /\ heap'[o].attachments = Append(heap[o].attachments, h.att)
                     /\ handlers'[i].pc = "channel"
                     /\ handlers'[i].k = "mediaHint"
           /\ (h.pc = "upload" /\ h.k = "media"
                 /\ (UploadReturns(i, TRUE) \/ UploadReturns(i, FALSE))) => ~InBuffer]_vars

\* a handler is uploading the media of its message to the ticket of its
\* session
MediaBeingUploaded ==
  \E i \in HandlerIds :
    /\ handlers[i].pc = "upload" /\ handlers[i].k = "media"
    /\ handlers[i].tid # 0
    /\ handlers[i].tid = heap[handlers[i].sid].ticketId

\* C6: the step that handles a message of an unauthorized sender leaves no
\* session under the key of the message, and the handler of such a message
\* never puts one there.
UnauthorizedLeavesNoSession ==
  [][/\ \A i \in HandlerIds, m \in UnauthorizedMessages :
          (events' # events /\ DeliverMessage(i, m)) =>
            sessions'[buildSessionKey(m.sender)] = 0
     /\ \A i \in HandlerIds :
          (Busy(i) /\ ~handlers[i].auth /\ (ChannelReturns(i) \/ ChannelThrows(i))) =>
            sessions' = sessions]_vars

\* the handler of an unauthorized start command has removed the session that
\* it found under its key
UnauthorizedRemovedSession ==
  \E i \in HandlerIds :
    /\ Busy(i) /\ ~handlers[i].auth
    /\ handlers[i].sid # 0
    /\ sessions[handlers[i].key] = 0

\* C7: the flow answers the start command of an unauthorized sender with one
\* reply and nothing else, and any other message of an unauthorized sender
\* with no call at all.
UnauthorizedOutput ==
  [][/\ \A i \in HandlerIds, m \in UnauthorizedMessages :
          (events' # events /\ DeliverMessage(i, m)) =>
            /\ pollMessages' = pollMessages /\ nextPoll' = nextPoll
            /\ nextTicket' = nextTicket /\ uploadErrors' = uploadErrors
            /\ IF m.cmd = "start"
               THEN /\ handlers'[i].pc = "channel" /\ handlers'[i].k = "finish"
                    /\ handlers'[i].replies = 1
                    /\ handlers'[i].channel = 0
                    /\ handlers'[i].backend = 0
               ELSE handlers' = handlers
     /\ \A i \in HandlerIds :
          (Busy(i) /\ ~handlers[i].auth /\ (ChannelReturns(i) \/ ChannelThrows(i))) =>
            /\ Returned(i)
            /\ pollMessages' = pollMessages /\ nextPoll' = nextPoll
            /\ nextTicket' = nextTicket /\ uploadErrors' = uploadErrors]_vars

\* the rejection of an unauthorized start command is being sent while the
\* handler of an authorized message is at work
RejectionBeingSent ==
  \E i, j \in HandlerIds :
    /\ Busy(i) /\ ~handlers[i].auth /\ handlers[i].replies = 1
    /\ Busy(j) /\ handlers[j].auth

\* C8: the step that handles the start command of an authorized sender puts
\* under its key, and under no other, a session object that nothing referred
\* to, with no draft, no ticket id, an empty buffer, uploadedCount 0, no
\* cached requester or assignee id and no pending selection.
StartInstallsFreshSession ==
  [][\A i \in HandlerIds, m \in StartMessages :
       (events' # events /\ DeliverMessage(i, m)) =>
         LET k == buildSessionKey(m.sender)
             o == sessions'[k]
         IN  /\ o # 0
             /\ ~Live(State, o)
             /\ sessions' = [sessions EXCEPT ![k] = o]
             /\ ~heap'[o].draft.present
             /\ heap'[o].ticketId = 0
             /\ heap'[o].attachments = <<>>
             /\ heap'[o].uploadedCount = 0
             /\ heap'[o].resolvedRequesterId = 0
             /\ heap'[o].resolvedAssigneeId = 0
             /\ ~heap'[o].pendingSelection.open]_vars

\* a start command has replaced a session while a handler still works on
\* the replaced one, which has a ticket
FreshSessionReplacedTicketed ==
  \E k \in Keys, i \in HandlerIds :
    /\ sessions[k] # 0
    /\ heap[sessions[k]] = NewSession
    /\ Busy(i) /\ handlers[i].key = k
    /\ handlers[i].sid # 0 /\ handlers[i].sid # sessions[k]
    /\ heap[handlers[i].sid].ticketId # 0

\* C9: when a search of the identity resolution returns one candidate, the
\* session caches that candidate's id for the role and no selection is
\* opened; when it returns two or more, no id is cached, no ticket is
\* created in the step and the session is left with a selection open for
\* that role.
SearchResolvesOrOpensSelection ==
  [][\A i \in HandlerIds, candidates \in SearchResults, retry \in SearchResults :
       LET h == handlers[i]
           o == h.sid
           found == IF ~h.byDni /\ candidates = <<>> /\ h.strict THEN retry
                    ELSE candidates
       IN  (/\ h.pc = "search" /\ sessions[h.key] = o
            /\ SearchReturns(i, candidates, retry)) =>
             /\ Len(found) = 1 =>
                  /\ ResolvedId(heap'[o], h.role) = found[1]
                  /\ heap'[o].pendingSelection = heap[o].pendingSelection
             /\ Len(found) >= 2 =>
                  /\ ResolvedId(heap'[o], h.role) = ResolvedId(heap[o], h.role)
                  /\ handlers'[i].pc # "createTicket"
                  /\ nextTicket' = nextTicket
                  /\ heap'[o].pendingSelection.open
                  /\ heap'[o].pendingSelection.role = h.role]_vars

\* the reply matches a key of candidate
Names(input, candidate) ==
  normalizeText(Trim(input)) \in buildCandidateMatchKeys(Users[candidate])

\* C10: with a selection open in text-reply mode, a reply equal to the index
\* k selects the k-th candidate and a reply equal after normalization to the
\* "first last" name, the "last first" name or the login of a candidate
\* selects that candidate; any other non-empty reply leaves the selection
\* and the cached ids as they are.
ReplySelectsNamedCandidate ==
  [][\A i \in HandlerIds, m \in ReplyMessages :
       LET o == sessions[buildSessionKey(m.sender)]
           s == heap[o]
           p == s.pendingSelection
           input == Trim(m.body.text)
           Selects(n) == input = IdText(n) \/ Names(input, p.candidates[n])
       IN  (/\ events' # events
            /\ o # 0 /\ p.open /\ ~p.awaitingPoll /\ p.pollMessageId = 0
            /\ input # <<>>
            /\ DeliverMessage(i, m)) =>
             /\ \A n \in 1..Len(p.candidates) :
                  Selects(n) =>
                    /\ ~heap'[o].pendingSelection.open
                    /\ ResolvedId(heap'[o], p.role) = p.candidates[n]
             /\ (\A n \in 1..Len(p.candidates) : ~Selects(n)) =>
                  /\ heap'[o].pendingSelection = p
                  /\ heap'[o].resolvedRequesterId = s.resolvedRequesterId
                  /\ heap'[o].resolvedAssigneeId = s.resolvedAssigneeId]_vars

\* C11: a session holds at most one selection, and while it is open and the
\* session stays in the store, a step that neither closes the selection nor
\* replaces the session leaves the role and the candidates of the selection,
\* every field of the draft and both cached ids as they are.
DraftFrozenWhileSelectionOpen ==
  [][\A k \in Keys :
       LET o == sessions[k] IN
       (/\ o # 0 /\ heap[o].pendingSelection.open
        /\ sessions'[k] = o /\ heap'[o].pendingSelection.open) =>
         /\ heap'[o].pendingSelection.role = heap[o].pendingSelection.role
         /\ heap'[o].pendingSelection.candidates = heap[o].pendingSelection.candidates
         /\ heap'[o].draft = heap[o].draft
         /\ heap'[o].resolvedRequesterId = heap[o].resolvedRequesterId
         /\ heap'[o].resolvedAssigneeId = heap[o].resolvedAssigneeId]_vars

\* an end command of an authorized sender
EndCommands == {m \in Messages : m.sender \in AuthorizedSenders /\ m.cmd = "end"}

\* C12: an end command that finds a selection open and does not resolve it
\* leaves the session in the store, its ticket id and its draft as they are,
\* calls neither a search nor createTicket nor the upload of a buffered
\* attachment, and is answered with the prompt to resolve the selection
\* (after its media, if it carries one, has been handled).
EndDeferredWhileSelectionOpen ==
  [][/\ \A i \in HandlerIds, m \in EndCommands :
          LET k == buildSessionKey(m.sender)
              o == sessions[k]
              p == heap[o].pendingSelection
              resolves == /\ ~m.hasMedia /\ ~p.awaitingPoll /\ p.pollMessageId = 0
                          /\ matchCandidateInput(m.body.text, p.candidates) # 0
          IN  (/\ events' # events
               /\ o # 0 /\ p.open /\ ~resolves
               /\ DeliverMessage(i, m)) =>
                /\ sessions' = sessions
                /\ heap' = heap
                /\ nextTicket' = nextTicket
                /\ IF m.hasMedia THEN handlers'[i].pc = "getMedia"
                   ELSE handlers'[i].pc = "channel" /\ handlers'[i].k = "endPrompt"
     /\ \A i \in HandlerIds :
          LET h == handlers[i]
              o == h.sid
          IN  (/\ h.mctx = "pend" /\ h.isEnd
               /\ sessions[h.key] = o /\ heap[o].pendingSelection.open
               /\ heap'[o].pendingSelection.open
               /\ \/ GetMediaReturns(i, TRUE) \/ GetMediaReturns(i, FALSE)
                  \/ ChannelReturns(i)
                  \/ UploadReturns(i, TRUE) \/ UploadReturns(i, FALSE)) =>
                /\ sessions' = sessions
                /\ heap'[o].ticketId = heap[o].ticketId
                /\ heap'[o].draft = heap[o].draft
                /\ nextTicket' = nextTicket
                /\ \/ handlers'[i].pc = "channel"
                      /\ handlers'[i].k \in {"mediaHint", "afterMedia", "endPrompt"}
                   \/ handlers'[i].pc = "upload" /\ handlers'[i].k = "media"
     /\ \A i \in HandlerIds :
          (handlers[i].pc = "channel" /\ handlers[i].k = "endPrompt"
            /\ ChannelReturns(i)) =>
             /\ sessions' = sessions /\ heap' = heap /\ nextTicket' = nextTicket
             /\ Returned(i)]_vars

\* an end command that carried a media has found a selection open, its media
\* has been buffered, and the prompt to resolve the selection is being sent
EndPromptBeingSent ==
  \E i \in HandlerIds :
    /\ handlers[i].pc = "channel" /\ handlers[i].k = "endPrompt"
    /\ sessions[handlers[i].key] = handlers[i].sid
    /\ heap[handlers[i].sid].pendingSelection.open
    /\ heap[handlers[i].sid].attachments # <<>>

CompleteEndFinalizes ==
  [][/\ \A i \in HandlerIds :
          LET h == handlers[i]
              o == h.sid
          IN  (h.pc # "idle" /\ h.ctx = "fin" /\ Returned(i)) =>
                (sessions'[h.key] = o => heap'[o].ticketId = 0)
     /\ \A i \in HandlerIds :
          LET h == handlers'[i]
              o == h.sid
          IN  (/\ h.pc = "channel" /\ h.k = "finDelete"
               /\ handlers[i] # h /\ sessions'[h.key] = o) =>
                /\ heap'[o].draft.isComplete
                /\ heap'[o].ticketId # 0
                /\ heap'[o].attachments = <<>>
     /\ \A i \in HandlerIds :
          (handlers[i].pc = "channel" /\ handlers[i].k = "finDelete"
            /\ ChannelReturns(i)) =>
             sessions'[handlers[i].key] = 0 /\ Returned(i)]_vars

\* tryCreateTicket of handler i returns false in this step without a ticket
\* having been created: an identity is not resolved (the search finds nobody
\* or throws, the candidates are put to the user or cannot be), createTicket
\* returns no id or throws
AttemptFails(i) ==
  LET h == handlers[i]
      open == heap[h.sid].pendingSelection.open
  IN  \/ SearchThrows(i)
      \/ \E candidates \in SearchResults, retry \in SearchResults :
           /\ SearchReturns(i, candidates, retry)
           /\ LET found == IF h.pc = "search" /\ ~h.byDni /\ candidates = <<>> /\ h.strict
                           THEN retry ELSE candidates
              IN  found = <<>> \/ (h.pc = "search" /\ Len(found) > 1 /\ open)
      \/ \E delivered \in BOOLEAN : SendPollReturns(i, delivered)
      \/ SendPollThrows(i)
      \/ CreateTicketReturns(i, "null")
      \/ CreateTicketReturns(i, "throw")

\* C15: a ticket creation attempt that fails leaves the session in the store,
\* without a ticket id, with the draft as the attempt found it and with the
\* attachment buffer as it was; and an end command or a ticket text that
\* reaches a stored session without a ticket, and leaves its draft complete,
\* starts a creation attempt (with the backend enabled: a backend call).
FailedAttemptKeepsDraft ==
  [][/\ \A i \in HandlerIds :
          LET h == handlers[i]  o == h.sid
          IN  (h.pc # "idle" /\ AttemptFails(i)) =>
                /\ sessions'[h.key] = o
                /\ heap'[o].ticketId = 0
                /\ heap'[o].draft = h.draft0
                /\ heap'[o].attachments = heap[o].attachments
     /\ \A i \in HandlerIds : \A m \in Messages :
          LET o == sessions[buildSessionKey(m.sender)]
          IN  (/\ DeliverMessage(i, m)
               /\ m.sender \in AuthorizedSenders /\ m.cmd # "start" /\ ~m.hasMedia
               /\ m.cmd = "end" \/ parseTicketText(m.body).present
               /\ o # 0 /\ glpiEnabled
               /\ heap[o].ticketId = 0 /\ heap'[o].draft.isComplete) =>
                handlers'[i].pc \in {"search", "defaultRequester", "createTicket"}]_vars

\* C16: an invalid-session response to the first send of a request makes the
\* request forget the session, start exactly one login of that session and
\* await it without sending; the request is sent again once, with the token
\* of that login; whatever failure answers the second send ends the request
\* with the error, without a login and without a third send; and a request
\* that has ended does nothing more.
RetriesOnceOnInvalidSession ==
  [][\A r \in RequestIds :
       LET q == glpi.requests[r]
           p == glpi'.requests[r]
       IN  /\ (q.pc = "sent" /\ q.retry /\ ResponseArrives(r, "invalid")) =>
                /\ p.pc = "session" /\ ~p.retry /\ p.sends = q.sends
                /\ p.logins = q.logins + 1
                /\ p.promise = glpi.nextLogin
                /\ glpi'.logins[p.promise].kind = SessionOf(glpi, q.fn, q.useProfile)
                /\ glpi'.logins[p.promise].pc \in {"profiles", "init"}
           /\ (/\ q.pc = "sent" /\ ~q.retry
               /\ ResponseArrives(r, "invalid") \/ ResponseArrives(r, "error")) =>
                /\ p = [q EXCEPT !.pc = "failed"]
                /\ glpi'.nextLogin = glpi.nextLogin
           /\ p.sends # q.sends =>
                /\ p.sends = q.sends + 1
                /\ \/ q.sends = 0 /\ q.retry
                   \/ /\ q.sends = 1 /\ ~q.retry /\ q.logins > 0
                      /\ p.token = q.promise /\ p.token # q.stale
           /\ q.pc \in {"done", "failed"} => p = q]_vars

\* C16 witness: the request that was sent again has failed again
ResentRequestFailed ==
  \E r \in CallerIds :
    LET q == glpi.requests[r]
    IN  q.pc = "failed" /\ q.sends = 2 /\ ~q.retry /\ q.stale # 0 /\ q.token # q.stale

\* the logins of a session that are in flight
LoginsInFlight(kind) ==
  {l \in LoginIds : glpi.logins[l].kind = kind
                    /\ glpi.logins[l].pc \in {"profiles", "init", "change"}}

\* C17: of each session at most one login is in flight at a time, and it is
\* the one that the promise field of the session holds, so that every call
\* that needs the token meanwhile awaits that login.
SingleFlightLogin ==
  \A kind \in Kinds :
    /\ Cardinality(LoginsInFlight(kind)) <= 1
    /\ \A l \in LoginsInFlight(kind) : glpi.sessionPromise[kind] = l

\* the fields of the draft that a ticket text can give
ParsedFields == {"solicitante", "asignado", "problema", "nombre", "dni", "correo"}

\* handler i is the delivery of ticket text m to a stored session that has a
\* draft and no selection open: handleText merges the text into the draft
MergesText(i, m) ==
  LET o == sessions[buildSessionKey(m.sender)]
  IN  /\ m \in ReplyMessages
      /\ parseTicketText(m.body).present
      /\ o # 0
      /\ heap[o].draft.present
      /\ ~heap[o].pendingSelection.open
      /\ DeliverMessage(i, m)

StepBy(i) ==
  /\ handlers'[i] # handlers[i]
  /\ handlers'[i].pc # "idle"
  /\ \A j \in HandlerIds \ {i} : handlers'[j] = handlers[j]

\* C19: a handler calls a backend search for a role only when the session
\* holds no resolved id for that role; and a creation attempt that reaches
\* createTicket without a search hands it the ids that the session holds.
CachedIdentityIsNotSearched ==
  [][\A i \in HandlerIds :
       LET h == handlers'[i]
           s == heap'[h.sid]
       IN  /\ (StepBy(i) /\ h.pc \in {"search", "defaultRequester"}) =>
                ResolvedId(s, h.role) = 0
           /\ (StepBy(i) /\ h.pc = "createTicket" /\ ~h.searched) =>
                /\ h.reqId # 0 /\ h.reqId = s.resolvedRequesterId
                /\ h.asgId # 0 => h.asgId = s.resolvedAssigneeId]_vars

\* C19 witness: an attempt has reached createTicket with the requester id of
\* the session and without any search
CreatingFromCachedIdentity ==
  \E i \in HandlerIds :
    LET h == handlers[i]
    IN  /\ h.pc = "createTicket" /\ ~h.searched
        /\ h.reqId # 0 /\ h.reqId = heap[h.sid].resolvedRequesterId

\* C20: a ticket text that gives a requester (assignee) other than the
\* draft's clears the resolved requester (assignee) id of the session before
\* the handler goes on, so that it is not at createTicket when the delivery
\* step ends; a text that gives none, or the draft's own, leaves the id as it
\* is; and the requester and assignee ids handed to createTicket are those
\* the session holds for the strings of its draft.
ChangedStringClearsCachedId ==
  [][/\ \A i \in HandlerIds : \A m \in Messages :
          LET o == sessions[buildSessionKey(m.sender)]
              d == heap[o].draft
              parsed == parseTicketText(m.body)
              requesterChanged ==
                parsed.solicitante # <<>> /\ parsed.solicitante # d.solicitante
              assigneeChanged ==
                parsed.asignado # <<>> /\ parsed.asignado # d.asignado
          IN  MergesText(i, m) =>
                /\ heap'[o].resolvedRequesterId =
                     IF requesterChanged THEN 0 ELSE heap[o].resolvedRequesterId
                /\ heap'[o].resolvedAssigneeId =
                     IF assigneeChanged THEN 0 ELSE heap[o].resolvedAssigneeId
                /\ (requesterChanged \/ assigneeChanged) =>
                     handlers'[i].pc # "createTicket"
     /\ \A i \in HandlerIds :
          LET h == handlers'[i]
              s == heap'[h.sid]
          IN  h.pc = "createTicket" =>
                /\ h.reqId = s.resolvedRequesterId
                /\ h.asgId # 0 => h.asgId = s.resolvedAssigneeId]_vars

\* a candidate is applied to session object o in this step: the resolved id
\* of a role becomes that of a user
CandidateApplied(o) ==
  \/ /\ heap'[o].resolvedRequesterId # 0
     /\ heap'[o].resolvedRequesterId # heap[o].resolvedRequesterId
  \/ /\ heap'[o].resolvedAssigneeId # 0
     /\ heap'[o].resolvedAssigneeId # heap[o].resolvedAssigneeId

\* C21: a step that applies a resolved candidate to a session leaves every
\* draft field that is not empty as it is, the requester and the assignee
\* strings included.
CandidateFillsOnlyEmptyFields ==
  [][\A o \in SessionIds :
       (heap[o].draft.present /\ CandidateApplied(o)) =>
          \A f \in ParsedFields :
            heap[o].draft[f] # <<>> => heap'[o].draft[f] = heap[o].draft[f]]_vars

\* the awaited calls of the backend
BackendCalls == {"search", "defaultRequester", "createTicket", "upload"}

\* C22: with the backend disabled no handler is ever at a backend call and no
\* session ever has a ticket or an uploaded attachment; an invocation sends
\* the "not configured" reply at most once; and an end command or ticket text
\* that leaves a stored session (no selection open) with a complete draft is
\* answered with that reply.
DisabledBackendIsNeverCalled ==
  [][~glpiEnabled =>
       /\ \A i \in HandlerIds :
            /\ handlers'[i].pc \notin BackendCalls
            /\ handlers'[i].notConfigured <= 1
       /\ \A o \in SessionIds :
            /\ heap'[o].ticketId = 0
            /\ heap'[o].uploadedCount = 0
            /\ createdCount'[o] = 0
       /\ \A i \in HandlerIds : \A m \in Messages :
            LET o == sessions[buildSessionKey(m.sender)]
            IN  (/\ DeliverMessage(i, m)
                 /\ m \in EndMessages \/ (m \in ReplyMessages /\ parseTicketText(m.body).present)
                 /\ o # 0 /\ ~heap[o].pendingSelection.open
                 /\ heap'[o].draft.isComplete) =>
                  /\ handlers'[i].pc = "channel" /\ handlers'[i].k = "notConfigured"
                  /\ handlers'[i].notConfigured = 1]_vars

\* C22 witness: with the backend disabled, the "not configured" reply to a
\* completion trigger is being sent
NotConfiguredBeingSent ==
  \E i \in HandlerIds :
    /\ ~glpiEnabled
    /\ handlers[i].pc = "channel" /\ handlers[i].k = "notConfigured"
    /\ heap[handlers[i].sid].draft.isComplete
    /\ heap[handlers[i].sid].ticketId = 0
\* the store entry of the key, or the session stored under it, is after the
\* step not what it was before it
SessionTouched(key) ==
  \/ sessions'[key] # sessions[key]
  \/ sessions[key] # 0 /\ heap'[sessions[key]] # heap[sessions[key]]

\* the step is one that the handler in slot i takes when a call that it
\* awaits returns or fails
Resumes(i) ==
  /\ handlers[i].pc # "idle"
  /\ events' = events
  /\ \/ ChannelReturns(i) \/ ChannelThrows(i)
     \/ \E downloaded \in BOOLEAN : GetMediaReturns(i, downloaded)
     \/ GetMediaThrows(i)
     \/ \E delivered \in BOOLEAN : SendPollReturns(i, delivered)
     \/ SendPollThrows(i)
     \/ \E candidates \in SearchResults, retry \in SearchResults :
           SearchReturns(i, candidates, retry)
     \/ SearchThrows(i)
     \/ \E outcome \in {"id", "null", "throw"} : CreateTicketReturns(i, outcome)
     \/ \E uploaded \in BOOLEAN : UploadReturns(i, uploaded)

\* the step is the delivery of message m, or of a poll vote, to slot i (the
\* conjuncts before the action follow from it: they are evaluated first)
MessageDelivered(i, m) ==
  /\ events' # events
  /\ FreeSlot(i)
  /\ handlers'[i].pc # "idle" => handlers'[i].key = buildSessionKey(m.sender)
  /\ DeliverMessage(i, m)

VoteDelivered(i, sender, pollId, ids) ==
  /\ events' # events
  /\ FreeSlot(i)
  /\ handlers'[i].pc # "idle" => handlers'[i].key = buildSessionKey(sender)
  /\ DeliverPollVote(i, sender, pollId, ids)

\* C23: a step that changes the store entry of key B or the session stored
\* under B is a step of the handler of an event whose session key is B: it is
\* not the delivery of a message or of a poll vote of another key A, and not
\* the return or failure of a call that a handler of another key A awaits.
OtherKeysAreFramed ==
  [][\A other \in AllKeys :
       SessionTouched(other) =>
         /\ \A i \in HandlerIds, m \in AllMessages :
               buildSessionKey(m.sender) # other => ~MessageDelivered(i, m)
         /\ \A i \in HandlerIds, sender \in AllSenders, pollId \in 1..MaxEvents,
               ids \in {<<>>, <<0>>, <<1>>} :
               buildSessionKey(sender) # other => ~VoteDelivered(i, sender, pollId, ids)
         /\ \A i \in HandlerIds :
               handlers[i].key # other => ~Resumes(i)]_vars

\* C23 witness: two keys hold a session each, the session of one of them has
\* a draft, and a handler of the other key is in flight
TwoKeysInUse ==
  \E a \in AllKeys, b \in AllKeys, i \in HandlerIds :
    /\ a # b /\ sessions[a] # 0 /\ sessions[b] # 0 /\ sessions[a] # sessions[b]
    /\ heap[sessions[a]].draft.present
    /\ handlers[i].pc # "idle" /\ handlers[i].key = b /\ handlers[i].sid = sessions[b]

\* C24: no handler returns after the failure of a call that it awaited
\* (search, createTicket, upload, reply or react, sendPoll, getMedia) without
\* having issued a reply after the failure: every failure is answered, by the
\* flow or by the catch of the callback that called it.
EveryFailureIsAnswered == unanswered = {}

\* ------------------------------------------------- the parser on its own
\* The bodies that parseTicketText is applied to: up to MaxPieces pieces, one
\* after the other.  The pieces are an 8-digit number, a 4-digit number, a
\* problem hint, a name, a key of KEY_MAP and the characters that the three
\* templates look for.
Pieces ==
  { Dni1, <<"7", "3", "8", "7">>, <<"p", "c">>, <<"a", "n", "a">>, <<"d", "n", "i">>,
    <<"-">>, <<Space>>, <<":">>, Arrow, <<"\n">> }

RECURSIVE Texts(_)
Texts(n) ==
  IF n = 0 THEN {<<>>}
  ELSE Texts(n - 1) \cup {t \o piece : t \in Texts(n - 1), piece \in Pieces}

InitParse ==
  /\ sessions = [k \in Keys |-> 0]
  /\ heap = [o \in SessionIds |-> NewSession]
  /\ handlers = [i \in HandlerIds |-> Idle]
  /\ pollMessages = {}
  /\ createdCount = [o \in SessionIds |-> 0]
  /\ uploadErrors = 0
  /\ unanswered = {}
  /\ nextTicket = 1
  /\ nextPoll = 1
  /\ events = 0
  /\ faults = 0
  /\ glpiEnabled = TRUE
  /\ glpi = NewGlpiClient("", "")
  /\ fnInput \in Texts(MaxPieces)
  /\ fnOutput = NoOutput

\* handleText, line 468: parseTicketText(body)
ParseTicketText ==
  /\ ~fnOutput.done
  /\ fnOutput' = [done |-> TRUE, fn |-> "parseTicketText", value |-> parseTicketChars(fnInput)]
  /\ UNCHANGED <<flowVars, glpi, fnInput>>

NextParse == ParseTicketText

SpecParse == InitParse /\ [][NextParse]_vars

\* the body holds no "=>" and no line that parseKeyValueTemplate reads a field
\* from, and has two segments of which exactly one holds exactly 8 digits
LooseDashWithOneId(body) ==
  LET parts == splitByDash(body)
  IN  /\ ~IsSubstring(Arrow, body)
      /\ ReadLines(NonEmpty(Trimmed(SplitAt(body, "\n"))), NoData) = NoData
      /\ Len(parts) = 2
      /\ (Len(OnlyDigits(parts[1])) = 8) # (Len(OnlyDigits(parts[2])) = 8)

\* C25: of a body without "=>" and without a recognized "KEY: value" line
\* that has exactly two dash-separated segments, exactly one of them with
\* exactly 8 digits, parseTicketText makes a draft whose requester is the
\* segment with the 8 digits and whose problem is the other segment,
\* whichever of the two comes first.
LooseDashRequesterIsTheId ==
  (fnOutput.done /\ fnOutput.fn = "parseTicketText" /\ LooseDashWithOneId(fnInput)) =>
     LET parts == splitByDash(fnInput)
         id == IF Len(OnlyDigits(parts[1])) = 8 THEN 1 ELSE 2
     IN  /\ fnOutput.value.present
         /\ fnOutput.value.data.solicitante = parts[id]
         /\ fnOutput.value.data.problema = parts[3 - id]

\* C25 witness: the segment with the 8 digits holds other characters too and
\* comes second, and the parse has made it the requester
IdSegmentComesSecond ==
  /\ fnOutput.done /\ fnOutput.fn = "parseTicketText" /\ LooseDashWithOneId(fnInput)
  /\ Len(OnlyDigits(splitByDash(fnInput)[2])) = 8
  /\ Len(splitByDash(fnInput)[2]) > 8
  /\ fnOutput.value.data.solicitante = splitByDash(fnInput)[2]

\* the session that the store holds for the sender of the event under any of
\* the keys that events of this sender are given is the one stored under key
ReachesSessionOf(sender, key) ==
  \A other \in AllSenders :
    (other.senderId = sender.senderId /\ sessions[buildSessionKey(other)] # 0)
       => sessions[key] = sessions[buildSessionKey(other)]

\* C26: the events of one sender have one session key: a message without a
\* start command and a poll vote find, under the key of the event, the session
\* that the store holds for that sender, whether or not the event carries the
\* sender's phone number.
SenderKeepsSessionKey ==
  [][/\ \A i \in HandlerIds, m \in AllMessages :
          (m.cmd # "start" /\ isAuthorizedSender(m.sender) /\ MessageDelivered(i, m))
             => ReachesSessionOf(m.sender, buildSessionKey(m.sender))
     /\ \A i \in HandlerIds, sender \in AllSenders, pollId \in 1..MaxEvents,
           ids \in {<<>>, <<0>>, <<1>>} :
          VoteDelivered(i, sender, pollId, ids)
             => ReachesSessionOf(sender, buildSessionKey(sender))]_vars

PollFirstThenList ==
  [][/\ \A i \in HandlerIds :
          LET o == handlers[i].sid
              sendsList == handlers'[i].pc = "channel" /\ handlers'[i].k = "candidateList"
          IN  (/\ handlers[i].pc = "sendPoll" /\ heap[o].pendingSelection.open
               /\ \E k \in Keys : sessions[k] = o) =>
                /\ SendPollReturns(i, TRUE) =>
                     /\ heap'[o].pendingSelection.pollMessageId = nextPoll
                     /\ ~sendsList
                /\ (SendPollReturns(i, FALSE) \/ SendPollThrows(i)) =>
                     /\ heap'[o].pendingSelection.open
                     /\ heap'[o].pendingSelection.pollMessageId = 0
                     /\ ~heap'[o].pendingSelection.awaitingPoll
                     /\ sendsList
     /\ \A o \in SessionIds :
          (/\ heap[o].pendingSelection.open
           /\ heap[o].pendingSelection.pollMessageId # 0
           /\ ~heap'[o].pendingSelection.open
           /\ \E k \in Keys : sessions'[k] = o) =>
             \E i \in HandlerIds, sender \in Senders, ids \in {<<>>, <<0>>, <<1>>} :
                /\ sessions[buildSessionKey(sender)] = o
                /\ VoteDelivered(i, sender, heap[o].pendingSelection.pollMessageId, ids)]_vars

\* ---------------------------------------------------------------------------
\* findUsersByDni on its own: the staged lookup of a national ID.  fnInput is
\* the call (the ID and the configured national-ID field ids), fnOutput is the
\* lookup in progress: the search that is awaited, the results so far and the
\* log of the searches that returned.

DniStages == <<"dniEquals", "dniContains", "loginEquals", "loginContains", "searchText">>

StageRank(stage) == CHOOSE n \in 1..Len(DniStages) : DniStages[n] = stage

RECURSIVE dedupeCandidates(_)
dedupeCandidates(candidates) ==
  IF candidates = <<>> THEN <<>>
  ELSE LET front == dedupeCandidates(SubSeq(candidates, 1, Len(candidates) - 1))
           last == candidates[Len(candidates)]
       IN  IF Contains(front, last) THEN front ELSE Append(front, last)

FieldIdLists == {[j \in 1..n |-> j] : n \in 0..MaxFields}

InitDni ==
  /\ sessions = [k \in Keys |-> 0]
  /\ heap = [o \in SessionIds |-> NewSession]
  /\ handlers = [i \in HandlerIds |-> Idle]
  /\ pollMessages = {}
  /\ createdCount = [o \in SessionIds |-> 0]
  /\ uploadErrors = 0
  /\ unanswered = {}
  /\ nextTicket = 1
  /\ nextPoll = 1
  /\ events = 0
  /\ faults = 0
  /\ glpiEnabled = TRUE
  /\ glpi = NewGlpiClient("", "")
  /\ fnInput \in [dni : {Dni1, <<"7", "3", "-", "8">>, <<"a">>}, fieldIds : FieldIdLists]
  /\ fnOutput = NoOutput

\* a variant of EnterStage that enters stage n whatever the results so far
RECURSIVE EnterStageWithResults(_, _, _)
EnterStageWithResults(lookup, n, fieldIds) ==
  IF n > Len(DniStages) THEN [lookup EXCEPT !.done = TRUE, !.pc = "returned"]
  ELSE IF n <= 2 => Len(fieldIds) > 0
       THEN [lookup EXCEPT !.pc = "search", !.stage = DniStages[n], !.field = 1]
       ELSE EnterStageWithResults(lookup, n + 1, fieldIds)

\* the search the lookup awaits next, from the condition that guards stage n
\* on: the national-ID stages need a configured field, every stage but the
\* first needs the results to be empty
RECURSIVE EnterStage(_, _, _)
EnterStage(lookup, n, fieldIds) ==
  IF n > Len(DniStages) THEN [lookup EXCEPT !.done = TRUE, !.pc = "returned"]
  ELSE IF /\ n <= 2 => Len(fieldIds) > 0
          /\ n >= 2 => lookup.results = <<>>
       THEN [lookup EXCEPT !.pc = "search", !.stage = DniStages[n], !.field = 1]
       ELSE EnterStage(lookup, n + 1, fieldIds)

NewLookup ==
  [done |-> FALSE, fn |-> "findUsersByDni", pc |-> "search", stage |-> "", field |-> 1,
   results |-> <<>>, log |-> <<>>]

\* lines 973-981: the call, up to the first search it awaits
FindUsersByDni ==
  /\ fnOutput = NoOutput
  /\ fnOutput' = IF OnlyDigits(fnInput.dni) = <<>>
                 THEN [NewLookup EXCEPT !.done = TRUE, !.pc = "returned"]
                 ELSE EnterStage(NewLookup, 1, fnInput.fieldIds)
  /\ UNCHANGED <<flowVars, glpi, fnInput>>

SearchAwaited == fnOutput # NoOutput /\ fnOutput.pc = "search"

\* searchUsersByCriteria returns matches to one of the first four stages
CriteriaSearchReturns(matches) ==
  /\ SearchAwaited
  /\ fnOutput.stage # "searchText"
  /\ LET n == StageRank(fnOutput.stage)
         found == [fnOutput EXCEPT !.results = @ \o matches,
                                   !.log = Append(@, [stage |-> fnOutput.stage, matches |-> matches])]
     IN  fnOutput' = IF n <= 2 /\ fnOutput.field < Len(fnInput.fieldIds)
                     THEN [found EXCEPT !.field = @ + 1]
                     ELSE EnterStage([found EXCEPT !.results = dedupeCandidates(@)], n + 1,
                                     fnInput.fieldIds)
  /\ UNCHANGED <<flowVars, glpi, fnInput>>

\* searchUsersByCriteria throws: the lookup throws
CriteriaSearchThrows ==
  /\ SearchAwaited
  /\ fnOutput.stage # "searchText"
  /\ fnOutput' = [fnOutput EXCEPT !.done = TRUE, !.pc = "thrown"]
  /\ UNCHANGED <<flowVars, glpi, fnInput>>

\* lines 1047-1055: the free-text search returns
TextSearchReturns(matches) ==
  /\ SearchAwaited
  /\ fnOutput.stage = "searchText"
  /\ fnOutput' = EnterStage([fnOutput EXCEPT
                               !.results = dedupeCandidates(@ \o matches),
                               !.log = Append(@, [stage |-> "searchText", matches |-> matches])],
                            Len(DniStages) + 1, fnInput.fieldIds)
  /\ UNCHANGED <<flowVars, glpi, fnInput>>

\* lines 1056-1058: the free-text search throws and the error is ignored
TextSearchThrows ==
  /\ SearchAwaited
  /\ fnOutput.stage = "searchText"
  /\ fnOutput' = [fnOutput EXCEPT !.done = TRUE, !.pc = "returned"]
  /\ UNCHANGED <<flowVars, glpi, fnInput>>

NextDni ==
  \/ FindUsersByDni
  \/ \E matches \in SearchResults : CriteriaSearchReturns(matches)
  \/ CriteriaSearchThrows
  \/ \E matches \in SearchResults : TextSearchReturns(matches)
  \/ TextSearchThrows

SpecDni == InitDni /\ [][NextDni]_vars

\* the searches of the log that belong to the stage of rank n
StageLog(n) == SelectSeq(fnOutput.log, LAMBDA e : StageRank(e.stage) = n)

RECURSIVE Concat(_)
Concat(log) == IF log = <<>> THEN <<>> ELSE Head(log).matches \o Concat(Tail(log))

StageResult(n) == dedupeCandidates(Concat(StageLog(n)))

\* C29: the searches of a national-ID lookup follow the order national-ID
\* field exact, national-ID field contains, login field exact, login field
\* contains, free text; a search of a stage is made only when every search of
\* every earlier stage returned no candidate; and the lookup returns the
\* candidates of the first stage that returned any, or none when no stage did.
StagedLookup ==
  fnOutput # NoOutput =>
    /\ \A a, b \in 1..Len(fnOutput.log) :
         a < b => StageRank(fnOutput.log[a].stage) <= StageRank(fnOutput.log[b].stage)
    /\ \A a, b \in 1..Len(fnOutput.log) :
         StageRank(fnOutput.log[a].stage) < StageRank(fnOutput.log[b].stage)
           => fnOutput.log[a].matches = <<>>
    /\ fnOutput.pc = "search" /\ fnOutput.stage # "" =>
         \A a \in 1..Len(fnOutput.log) :
            /\ StageRank(fnOutput.log[a].stage) <= StageRank(fnOutput.stage)
            /\ StageRank(fnOutput.log[a].stage) < StageRank(fnOutput.stage)
                 => fnOutput.log[a].matches = <<>>
    /\ fnOutput.pc = "returned" =>
         IF \E n \in 1..Len(DniStages) : StageResult(n) # <<>>
         THEN LET first == CHOOSE n \in 1..Len(DniStages) :
                              /\ StageResult(n) # <<>>
                              /\ \A m \in 1..(n - 1) : StageResult(m) = <<>>
              IN  fnOutput.results = StageResult(first)
         ELSE fnOutput.results = <<>>

\* the lookup returned the candidates of the fourth stage after the three
\* stages before it found nobody
FoundByLoginContains ==
  /\ fnOutput # NoOutput
  /\ fnOutput.pc = "returned"
  /\ fnOutput.results # <<>>
  /\ Len(fnOutput.log) >= 4
  /\ fnOutput.log[Len(fnOutput.log)].stage = "loginContains"

\* exactly 8 digits and nothing else
EightDigits(value) == Len(value) = DniLength /\ OnlyDigits(value) = value

\* C30: a requester value is looked up by national ID exactly when, trimmed,
\* it is 8 digits and nothing else; every other value is looked up by name.
IdentityByDigitsOnly ==
  \A i \in HandlerIds :
     handlers[i].pc = "search" /\ handlers[i].role = "solicitante"
       => (handlers[i].byDni <=> EightDigits(Trim(handlers[i].draft0.solicitante)))

\* what does hold: what is looked up by national ID holds exactly
\* 8 digits, and 8 digits alone are never looked up by name
LookupByIdHasEightDigits ==
  \A i \in HandlerIds :
     handlers[i].pc = "search" /\ handlers[i].role = "solicitante"
       => /\ handlers[i].byDni <=> Len(OnlyDigits(handlers[i].draft0.solicitante)) = DniLength
          /\ EightDigits(Trim(handlers[i].draft0.solicitante)) => handlers[i].byDni

\* ---------------------------------------------------------------------------
\* findUsersByName on its own: the strategies of a lookup by name.  fnInput is
\* the call, fnOutput the lookup in progress.  A page of the scan holds up to
\* PageSize users and the scan reads up to MaxPages pages.

\* split(/\s+/).filter(Boolean)
tokenizeName(value) ==
  NonEmpty(SplitAt(MapSeq(value, LAMBDA c : IF c \in WhiteSpace THEN Space ELSE c), Space))

normalizeNameValue(value) ==
  Trim(CollapseSpaces(
    MapSeq(normalizeText(value),
           LAMBDA c : IF c \in UpperLetters \cup Digits \cup {Space} THEN c ELSE Space)))

buildCandidateSearchText(candidate) ==
  normalizeNameValue(JoinWords(NonEmpty(
    <<Trim(candidate.firstname), Trim(candidate.realname), Trim(candidate.login)>>)))

\* candidates is a sequence of user ids
filterCandidatesByName(candidates, query) ==
  LET tokens == tokenizeName(normalizeNameValue(query))
  IN  IF tokens = <<>> THEN candidates
      ELSE SelectSeq(candidates,
             LAMBDA id : /\ buildCandidateSearchText(Users[id]) # <<>>
                         /\ \A n \in 1..Len(tokens) :
                               IsSubstring(tokens[n], buildCandidateSearchText(Users[id])))

RECURSIVE PickTokens(_, _, _)
PickTokens(tokens, chosen, n) ==
  IF n > Len(tokens) THEN <<>>
  ELSE (IF n \in chosen THEN <<tokens[n]>> ELSE <<>>) \o PickTokens(tokens, chosen, n + 1)

\* the attempts as the set of their keys: the first-name part and the
\* last-name part, normalized
buildNameSearchAttempts(value) ==
  LET tokens == tokenizeName(value)
      all == 1..Len(tokens)
      part(chosen) == normalizeText(JoinWords(PickTokens(tokens, chosen, 1)))
      splits == {1..n : n \in 1..(Len(tokens) - 1)}
      masks == IF Len(tokens) <= 6 THEN (SUBSET all) \ {{}, all} ELSE {}
  IN  IF Len(tokens) < 2 THEN {}
      ELSE {<<part(chosen), part(all \ chosen)>> : chosen \in splits \cup masks}
             \cup {<<part(all \ chosen), part(chosen)>> : chosen \in splits}

\* the attempts as the set of their keys: the field and the normalized value
buildSingleFieldNameAttempts(value) ==
  LET tokens == tokenizeName(value)
      values == (IF Trim(value) # <<>> THEN {Trim(value)} ELSE {})
                  \cup {tokens[n] : n \in 1..Len(tokens)}
  IN  {<<field, normalizeText(v)>> : field \in {"9", "34"}, v \in values}

NameStages == <<"partitions", "singleField", "login", "extended", "searchText", "scan">>

NameRank(stage) == CHOOSE n \in 1..Len(NameStages) : NameStages[n] = stage

\* the number of searches stage n makes when none of them finds the name
Attempts(lookup, n, name) ==
  CASE NameStages[n] = "partitions" -> Cardinality(buildNameSearchAttempts(name))
    [] NameStages[n] = "singleField" -> Cardinality(buildSingleFieldNameAttempts(name))
    [] NameStages[n] = "login" -> 1
    [] NameStages[n] = "extended" -> IF lookup.unfiltered THEN 1 ELSE 0
    [] NameStages[n] = "searchText" -> 1
    [] OTHER -> MaxPages

NameSearchResults == {<<>>, <<1>>, <<2, 1, 2>>}

ScanPages == UNION {[1..n -> UserIds] : n \in 0..PageSize}

NameQueries ==
  { Name1, <<" ", "a", "r", "2">>, <<"A", "n", "a", " ", "Z", "o", "e">>, <<" ">> }

InitName ==
  /\ sessions = [k \in Keys |-> 0]
  /\ heap = [o \in SessionIds |-> NewSession]
  /\ handlers = [i \in HandlerIds |-> Idle]
  /\ pollMessages = {}
  /\ createdCount = [o \in SessionIds |-> 0]
  /\ uploadErrors = 0
  /\ unanswered = {}
  /\ nextTicket = 1
  /\ nextPoll = 1
  /\ events = 0
  /\ faults = 0
  /\ glpiEnabled = TRUE
  /\ glpi = NewGlpiClient("", "")
  /\ fnInput \in [name : NameQueries, strict : BOOLEAN]
  /\ fnOutput = NoOutput

Returning(lookup, results) ==
  [lookup EXCEPT !.done = TRUE, !.pc = "returned", !.results = results]

\* the search awaited after the attempt-th search of stage n found nobody
RECURSIVE NextAttempt(_, _, _, _)
NextAttempt(lookup, n, attempt, name) ==
  IF n > Len(NameStages) THEN Returning(lookup, dedupeCandidates(lookup.matches))
  ELSE IF attempt < Attempts(lookup, n, name)
  THEN [lookup EXCEPT !.pc = "search", !.stage = NameStages[n], !.attempt = attempt + 1]
  ELSE IF NameStages[n] = "searchText" THEN Returning(lookup, <<>>)
  ELSE NextAttempt(lookup, n + 1, 0, name)

NewNameLookup ==
  [done |-> FALSE, fn |-> "findUsersByName", pc |-> "search", stage |-> "", attempt |-> 0,
   unfiltered |-> FALSE, matches |-> <<>>, results |-> <<>>, log |-> <<>>]

\* lines 1063-1087: the call, up to the first search it awaits
FindUsersByName ==
  /\ fnOutput = NoOutput
  /\ fnOutput' = IF Trim(fnInput.name) = <<>> THEN Returning(NewNameLookup, <<>>)
                 ELSE NextAttempt(NewNameLookup, 1, 0, fnInput.name)
  /\ UNCHANGED <<flowVars, glpi, fnInput>>

NameSearchAwaited(stages) ==
  /\ fnOutput # NoOutput
  /\ fnOutput.pc = "search"
  /\ fnOutput.stage \in stages

Logged(lookup, filtered) ==
  [lookup EXCEPT !.log = Append(@, [stage |-> lookup.stage, filtered |-> filtered])]

\* lines 1088-1138: searchUsersByCriteria returns to one of the first four
\* strategies; handleMatches keeps the first criteria whose matches the
\* filter emptied
NameSearchReturns(matches) ==
  /\ NameSearchAwaited({"partitions", "singleField", "login", "extended"})
  /\ LET filtered == filterCandidatesByName(matches, Trim(fnInput.name))
         found == Logged(fnOutput, dedupeCandidates(filtered))
         kept == [found EXCEPT !.unfiltered =
                    @ \/ (fnOutput.stage # "extended" /\ matches # <<>>)]
     IN  fnOutput' = IF filtered # <<>> THEN Returning(found, dedupeCandidates(filtered))
                     ELSE NextAttempt(kept, NameRank(fnOutput.stage), fnOutput.attempt,
                                      fnInput.name)
  /\ UNCHANGED <<flowVars, glpi, fnInput>>

\* searchUsersByCriteria throws, in a strategy or in the scan
NameSearchThrows ==
  /\ NameSearchAwaited({"partitions", "singleField", "login", "extended", "scan"})
  /\ fnOutput' = [fnOutput EXCEPT !.done = TRUE, !.pc = "thrown"]
  /\ UNCHANGED <<flowVars, glpi, fnInput>>

\* lines 1140-1147: the free-text search returns, and so does the lookup
NameTextSearchReturns(matches) ==
  /\ NameSearchAwaited({"searchText"})
  /\ LET filtered == dedupeCandidates(filterCandidatesByName(matches, Trim(fnInput.name)))
     IN  fnOutput' = Returning(Logged(fnOutput, filtered), filtered)
  /\ UNCHANGED <<flowVars, glpi, fnInput>>

\* lines 1148-1153: the free-text search throws, the error is ignored and the
\* scan begins
NameTextSearchThrows ==
  /\ NameSearchAwaited({"searchText"})
  /\ fnOutput' = NextAttempt(fnOutput, NameRank("scan"), 0, fnInput.name)
  /\ UNCHANGED <<flowVars, glpi, fnInput>>

\* scanUsersByName: one page of all users returns
ScanPageReturns(page) ==
  /\ NameSearchAwaited({"scan"})
  /\ LET filtered == filterCandidatesByName(page, Trim(fnInput.name))
         found == [Logged(fnOutput, dedupeCandidates(filtered)) EXCEPT !.matches = @ \o filtered]
     IN  fnOutput' = IF Len(page) < PageSize \/ Len(found.matches) >= MAX_SCAN_MATCHES
                     THEN Returning(found, dedupeCandidates(found.matches))
                     ELSE NextAttempt(found, NameRank("scan"), fnOutput.attempt, fnInput.name)
  /\ UNCHANGED <<flowVars, glpi, fnInput>>

NextName ==
  \/ FindUsersByName
  \/ \E matches \in NameSearchResults : NameSearchReturns(matches)
  \/ NameSearchThrows
  \/ \E matches \in NameSearchResults : NameTextSearchReturns(matches)
  \/ NameTextSearchThrows
  \/ \E page \in ScanPages : ScanPageReturns(page)

SpecName == InitName /\ [][NextName]_vars

RECURSIVE ConcatFiltered(_)
ConcatFiltered(log) ==
  IF log = <<>> THEN <<>> ELSE Head(log).filtered \o ConcatFiltered(Tail(log))

StrategyResult(n) ==
  dedupeCandidates(ConcatFiltered(SelectSeq(fnOutput.log, LAMBDA e : NameRank(e.stage) = n)))

NoDuplicateIds(candidates) ==
  \A a, b \in 1..Len(candidates) : candidates[a] = candidates[b] => a = b

\* C31: a lookup by name returns the name-filtered candidates, without a
\* repeated id, of the first strategy that found any; and a lookup that
\* returns after no strategy before the scan found a candidate has made the
\* scan.
NameLookupFirstStrategy ==
  fnOutput # NoOutput /\ fnOutput.pc = "returned" /\ Trim(fnInput.name) # <<>> =>
    /\ NoDuplicateIds(fnOutput.results)
    /\ IF \E n \in 1..Len(NameStages) : StrategyResult(n) # <<>>
       THEN LET first == CHOOSE n \in 1..Len(NameStages) :
                            /\ StrategyResult(n) # <<>>
                            /\ \A m \in 1..(n - 1) : StrategyResult(m) = <<>>
            IN  fnOutput.results = StrategyResult(first)
       ELSE fnOutput.results = <<>>
    /\ (\A n \in 1..(NameRank("scan") - 1) : StrategyResult(n) = <<>>)
         => \E a \in 1..Len(fnOutput.log) : fnOutput.log[a].stage = "scan"

\* what does hold: the result is that of the first strategy that found a
\* candidate, without a repeated id, and the scan is made exactly when the
\* free-text search threw
ScanOnlyAfterFailedTextSearch ==
  fnOutput # NoOutput /\ fnOutput.pc = "returned" /\ Trim(fnInput.name) # <<>> =>
    /\ NoDuplicateIds(fnOutput.results)
    /\ IF \E n \in 1..Len(NameStages) : StrategyResult(n) # <<>>
       THEN LET first == CHOOSE n \in 1..Len(NameStages) :
                            /\ StrategyResult(n) # <<>>
                            /\ \A m \in 1..(n - 1) : StrategyResult(m) = <<>>
            IN  fnOutput.results = StrategyResult(first)
       ELSE fnOutput.results = <<>>
    /\ (\E a \in 1..Len(fnOutput.log) : fnOutput.log[a].stage = "scan")
         => \A a \in 1..Len(fnOutput.log) : fnOutput.log[a].stage # "searchText"

\* ---------------------------------------------------------------------------
\* searchUsersByCriteria on its own.  fnInput is the call and the entity
\* field that getUserEntityFieldId answers with (<<>> is null), fnOutput the
\* search in progress with the log of the requests sent and their responses.

\* line 67
userEntityId == <<"2", "6">>

Criterion(field, value, link) == [field |-> field, value |-> value, link |-> link]

CriteriaLists ==
  { <<>>,
    <<Criterion("9", Name1, "")>>,
    <<Criterion("9", <<"A", "n", "a">>, ""), Criterion("34", <<"R", "o", "a">>, "AND")>>,
    <<Criterion("1", Dni1, "")>> }

InitSearch ==
  /\ sessions = [k \in Keys |-> 0]
  /\ heap = [o \in SessionIds |-> NewSession]
  /\ handlers = [i \in HandlerIds |-> Idle]
  /\ pollMessages = {}
  /\ createdCount = [o \in SessionIds |-> 0]
  /\ uploadErrors = 0
  /\ unanswered = {}
  /\ nextTicket = 1
  /\ nextPoll = 1
  /\ events = 0
  /\ faults = 0
  /\ glpiEnabled = TRUE
  /\ glpi = NewGlpiClient("", "")
  /\ fnInput \in [criteria : CriteriaLists, range : {"0-10", "0-50", "0-500"},
                  searchType : {"equals", "contains"}, entityFieldId : {<<>>, <<"8", "0">>}]
  /\ fnOutput = NoOutput

\* lines 586-607
usedEntityFilter(call) == call.entityFieldId # <<>> /\ userEntityId # <<>> /\ Trim(userEntityId) # <<>>

criteriaWithEntity(call) ==
  IF usedEntityFilter(call)
  THEN <<[field |-> call.entityFieldId, value |-> Trim(userEntityId), link |-> "",
          searchType |-> "equals"]>>
         \o [n \in 1..Len(call.criteria) |->
               [field |-> call.criteria[n].field, value |-> call.criteria[n].value,
                link |-> IF call.criteria[n].link # "" THEN call.criteria[n].link ELSE "AND",
                searchType |-> call.searchType]]
  ELSE [n \in 1..Len(call.criteria) |->
          [field |-> call.criteria[n].field, value |-> call.criteria[n].value,
           link |-> call.criteria[n].link, searchType |-> call.searchType]]

\* the criteria of the fallback query: those of the call, as buildParams sends them
fallbackCriteria(call) ==
  [n \in 1..Len(call.criteria) |->
     [field |-> call.criteria[n].field, value |-> call.criteria[n].value,
      link |-> call.criteria[n].link, searchType |-> call.searchType]]

\* faulty variant of AfterFirstResponse: the scoped response is returned as it is
AfterFirstResponseNoFallback(search, call, parsed) ==
  [search EXCEPT !.done = TRUE, !.pc = "returned", !.results = parsed]

\* lines 633-636: what follows the response to the first query
AfterFirstResponse(search, call, parsed) ==
  IF parsed # <<>> \/ ~usedEntityFilter(call)
  THEN [search EXCEPT !.done = TRUE, !.pc = "returned", !.results = parsed]
  ELSE [search EXCEPT !.pc = "fallback",
                      !.sent = Append(@, [criteria |-> fallbackCriteria(call),
                                          range |-> call.range])]

\* lines 578-632: the call, up to the first request it awaits
SearchUsersByCriteria ==
  /\ fnOutput = NoOutput
  /\ fnOutput' = [done |-> FALSE, fn |-> "searchUsersByCriteria", pc |-> "query",
                  sent |-> <<[criteria |-> criteriaWithEntity(fnInput), range |-> fnInput.range]>>,
                  responses |-> <<>>, results |-> <<>>]
  /\ UNCHANGED <<flowVars, glpi, fnInput>>

\* requestForSearch returns the response to the first query
QueryReturns(parsed) ==
  /\ fnOutput # NoOutput
  /\ fnOutput.pc = "query"
  /\ fnOutput' = AfterFirstResponse([fnOutput EXCEPT !.responses = Append(@, parsed)],
                                    fnInput, parsed)
  /\ UNCHANGED <<flowVars, glpi, fnInput>>

\* lines 639-648: requestForSearch returns the response to the fallback query
FallbackReturns(parsed) ==
  /\ fnOutput # NoOutput
  /\ fnOutput.pc = "fallback"
  /\ fnOutput' = [fnOutput EXCEPT !.done = TRUE, !.pc = "returned", !.results = parsed,
                                  !.responses = Append(@, parsed)]
  /\ UNCHANGED <<flowVars, glpi, fnInput>>

\* requestForSearch throws
RequestForSearchThrows ==
  /\ fnOutput # NoOutput
  /\ fnOutput.pc \in {"query", "fallback"}
  /\ fnOutput' = [fnOutput EXCEPT !.done = TRUE, !.pc = "thrown"]
  /\ UNCHANGED <<flowVars, glpi, fnInput>>

NextSearch ==
  \/ SearchUsersByCriteria
  \/ \E parsed \in SearchResults : QueryReturns(parsed)
  \/ \E parsed \in SearchResults : FallbackReturns(parsed)
  \/ RequestForSearchThrows

SpecSearch == InitSearch /\ [][NextSearch]_vars

\* the first request of the search holds the entity criterion
Scoped(search) == search.sent[1].criteria # fallbackCriteria(fnInput)

\* C32: a search whose entity-scoped query returned no candidate has sent
\* one more query, with the criteria and range of the call and without the
\* entity criterion, and returns what that query returned; a search whose
\* first query returned a candidate, or was not scoped, sends nothing more.
UnscopedRetryOnce ==
  fnOutput # NoOutput =>
    /\ Len(fnOutput.sent) <= 2
    /\ Len(fnOutput.responses) >= 1 /\ Scoped(fnOutput) /\ fnOutput.responses[1] = <<>> =>
         /\ Len(fnOutput.sent) = 2
         /\ fnOutput.sent[2] = [criteria |-> fallbackCriteria(fnInput), range |-> fnInput.range]
         /\ \A n \in 1..Len(fnInput.criteria) :
               /\ fnOutput.sent[1].criteria[n + 1].field = fnInput.criteria[n].field
               /\ fnOutput.sent[1].criteria[n + 1].value = fnInput.criteria[n].value
         /\ fnOutput.pc = "returned" =>
               Len(fnOutput.responses) = 2 /\ fnOutput.results = fnOutput.responses[2]
    /\ Len(fnOutput.responses) >= 1 /\ (~Scoped(fnOutput) \/ fnOutput.responses[1] # <<>>) =>
         /\ Len(fnOutput.sent) = 1
         /\ fnOutput.pc = "returned"
         /\ fnOutput.results = fnOutput.responses[1]

\* a scoped query found nobody and the unscoped query found somebody
UnscopedQueryFound ==
  /\ fnOutput # NoOutput
  /\ fnOutput.pc = "returned"
  /\ Scoped(fnOutput)
  /\ Len(fnOutput.responses) = 2
  /\ fnOutput.responses[1] = <<>>
  /\ fnOutput.results # <<>>

\* the resolution of the requester that handler i awaits ends in this step:
\* the search finds nobody or throws, or the reply that tells so has been sent
RequesterNotResolved(i) ==
  /\ handlers[i].role = "solicitante"
  /\ \/ /\ handlers[i].pc \in {"search", "defaultRequester"}
        /\ \/ SearchThrows(i)
           \/ \E retry \in SearchResults :
                 /\ handlers[i].pc = "search" /\ ~handlers[i].byDni /\ handlers[i].strict
                      => retry = <<>>
                 /\ SearchReturns(i, <<>>, retry)
     \/ /\ handlers[i].pc = "channel"
        /\ handlers[i].k = "resolveNull"
        /\ ChannelReturns(i)

CreateTicketCalls == Cardinality({j \in HandlerIds : handlers[j].pc = "createTicket"})

SessionKept(o) ==
  /\ heap'[o].draft = heap[o].draft
  /\ heap'[o].resolvedRequesterId = heap[o].resolvedRequesterId
  /\ heap'[o].resolvedAssigneeId = heap[o].resolvedAssigneeId
  /\ heap'[o].ticketId = heap[o].ticketId
  /\ heap'[o].attachments = heap[o].attachments
  /\ heap'[o].pendingSelection = heap[o].pendingSelection

OpenSelectionHasNoTicket ==
  \A k \in Keys :
     sessions[k] # 0 /\ heap[sessions[k]].pendingSelection.open
       => heap[sessions[k]].ticketId = 0

InStore(ss, o) == \E k \in Keys : ss[k] = o

\* C35: the ticket id of a session that has one and stays in the store is the
\* same after every step.
TicketIdIsStable ==
  [][\A o \in SessionIds :
        heap[o].ticketId # 0 /\ InStore(sessions, o) /\ InStore(sessions', o)
          => heap'[o].ticketId = heap[o].ticketId]_vars

\* C36: a session of the store for which no handler is in flight does not have
\* a pending selection that waits for its poll.
NoSelectionStuckOnPoll ==
  \A k \in Keys :
     /\ sessions[k] # 0
     /\ \A i \in HandlerIds : handlers[i].pc = "idle" \/ handlers[i].sid # sessions[k]
     /\ heap[sessions[k]].pendingSelection.open
     => ~heap[sessions[k]].pendingSelection.awaitingPoll

\* ---------------------------------------------------------------------------
\* The conversation from the states in which polls 1 and 2 have been sent:
\* the owner of key "lB" has no session, a session just started, or the
\* session of a message with a national ID and a problem whose search found
\* two candidates, with the selection waiting for a vote on poll 1 or on
\* poll 2 or for a text reply, and with or without a buffered attachment.
\* The sender whose number is known has no session.  The events from there on
\* are poll votes.

SelectionOf(pollId) ==
  [open |-> TRUE, role |-> "solicitante", candidates |-> <<1, 2>>,
   pollMessageId |-> pollId, awaitingPoll |-> FALSE]

\* the session as handleText and promptCandidateSelection leave it
PolledSession(pending, asignado, attachments) ==
  [NewSession EXCEPT
     !.attachments = attachments,
     !.draft = [NoDraft EXCEPT !.present = TRUE, !.solicitante = Dni1,
                               !.asignado = asignado,
                               !.problema = Problem1, !.categoria = DefaultCategoryName,
                               !.rawText = <<"d", "a", "t", "a">>, !.isComplete = TRUE],
     !.awaitingText = FALSE,
     !.pendingSelection = pending]

InitVotes ==
  /\ \E owned \in BOOLEAN :
        /\ sessions = [k \in AllKeys |->
                         IF owned /\ k = buildSessionKey(CHOOSE m \in Senders : TRUE)
                         THEN 1 ELSE 0]
        /\ \E first \in IF owned
                        THEN {NewSession}
                               \cup {PolledSession(SelectionOf(pollId), asignado, attachments) :
                                       pollId \in 0..2, asignado \in {<<>>, TechName},
                                       attachments \in {<<>>, <<1>>}}
                        ELSE {NewSession} :
              heap = [o \in SessionIds |-> IF o = 1 THEN first ELSE NewSession]
  /\ handlers = [i \in HandlerIds |-> Idle]
  /\ pollMessages = {1, 2}
  /\ createdCount = [o \in SessionIds |-> 0]
  /\ uploadErrors = 0
  /\ unanswered = {}
  /\ fnInput = <<>>
  /\ fnOutput = NoOutput
  /\ nextTicket = 1
  /\ nextPoll = 3
  /\ events = 0
  /\ faults = 0
  /\ glpiEnabled = TRUE
  /\ glpi = NewGlpiClient("", "")

NextVotes ==
  \/ \E i \in HandlerIds, sender \in AllSenders, pollId \in 1..MaxEvents,
        ids \in {<<>>, <<0>>, <<1>>} : DeliverPollVote(i, sender, pollId, ids)
  \/ \E i \in HandlerIds : ChannelReturns(i)
  \/ \E i \in HandlerIds : ChannelThrows(i)
  \/ \E i \in HandlerIds, delivered \in BOOLEAN : SendPollReturns(i, delivered)
  \/ \E i \in HandlerIds : SendPollThrows(i)
  \/ \E i \in HandlerIds, candidates \in SearchResults, retry \in SearchResults :
        SearchReturns(i, candidates, retry)
  \/ \E i \in HandlerIds : SearchThrows(i)
  \/ \E i \in HandlerIds, outcome \in {"id", "null", "throw"} : CreateTicketReturns(i, outcome)
  \/ \E i \in HandlerIds, uploaded \in BOOLEAN : UploadReturns(i, uploaded)

SpecVotes == InitVotes /\ [][NextVotes]_vars

\* the session of the key has a selection that waits for a vote on this poll
VoteMatches(key, pollId) ==
  /\ sessions[key] # 0
  /\ heap[sessions[key]].pendingSelection.open
  /\ heap[sessions[key]].pendingSelection.pollMessageId # 0
  /\ heap[sessions[key]].pendingSelection.pollMessageId = pollId

\* C37: the delivery of a poll vote leaves the store and every session but
\* that of the voter's key as they were; and when the voter has no session,
\* or the session has no selection, or the selection has no poll or another
\* poll than that of the vote, it leaves every session as it was and the
\* handler returns without a reply and without a backend call.
VoteTouchesOnlyItsSelection ==
  [][\A i \in HandlerIds, sender \in AllSenders, pollId \in 1..MaxEvents,
        ids \in {<<>>, <<0>>, <<1>>} :
        VoteDelivered(i, sender, pollId, ids) =>
          /\ sessions' = sessions
          /\ \A o \in SessionIds :
                o # sessions[buildSessionKey(sender)] => heap'[o] = heap[o]
          /\ ~VoteMatches(buildSessionKey(sender), pollId) =>
                /\ heap' = heap
                /\ handlers' = handlers
                /\ UNCHANGED <<pollMessages, createdCount, uploadErrors, unanswered,
                               nextTicket, nextPoll, faults>>]_vars

\* a vote has been delivered to a session whose selection waits for a text
\* reply, and the selection is as it was
VoteIgnoredInTextMode ==
  /\ events = 1
  /\ \A i \in HandlerIds : handlers[i].pc = "idle"
  /\ \E k \in AllKeys :
        /\ sessions[k] # 0
        /\ heap[sessions[k]] \in {PolledSession(SelectionOf(0), asignado, attachments) :
                                    asignado \in {<<>>, TechName},
                                    attachments \in {<<>>, <<1>>}}

\* the number of positions of the sequence q that hold a
RECURSIVE Occurrences(_, _)
Occurrences(q, a) ==
  IF q = <<>> THEN 0
  ELSE (IF Head(q) = a THEN 1 ELSE 0) + Occurrences(Tail(q), a)

RECURSIVE SumOver(_, _, _)
SumOver(ids, f, a) ==
  IF ids = {} THEN 0
  ELSE LET x == CHOOSE y \in ids : TRUE
       IN  f[x][a] + SumOver(ids \ {x}, f, a)

\* the media of handler i that it has yet to hand on: the media of its
\* message until handleMedia has buffered or uploaded it, and the copy of
\* the buffer that its flush is uploading
HeldByHandler(i, a) ==
  LET h == handlers[i]
      handedOn == h.pc = "channel" /\ h.k \in {"mediaHint", "afterMedia"}
  IN  (IF h.att = a /\ ~handedOn THEN 1 ELSE 0) + Occurrences(h.queue, a)

\* the places that hold the media a and from which it can still go to the
\* backend
Copies(a) ==
  SumOver(SessionIds, [o \in SessionIds |->
                         [b \in 1..MaxMedia |-> Occurrences(heap[o].attachments, b)]], a)
  + SumOver(HandlerIds, [i \in HandlerIds |->
                           [b \in 1..MaxMedia |-> HeldByHandler(i, b)]], a)

\* the step deletes the session of handler i after the reply of a
\* finalization that went through
FinalizationDeletes(i) ==
  /\ handlers[i].pc = "channel" /\ handlers[i].k = "finDelete"
  /\ handlers'[i].pc # "channel"
  /\ faults' = faults
  /\ \E k \in Keys : sessions[k] = handlers[i].sid /\ sessions'[k] = 0

\* C38: a media object is held in one place at most (the buffer of one
\* session, the flush of one handler or the handler of its message), so that
\* the upload that consumes it is its only one; and the buffer of a session
\* is empty when the last reply of its finalization deletes it.
AttachmentsUploadedOnce ==
  /\ [](\A a \in 1..MaxMedia : Copies(a) <= 1)
  /\ [][\A i \in HandlerIds :
          FinalizationDeletes(i) => heap[handlers[i].sid].attachments = <<>>]_vars

\* The conversation taken up when the session of the authorized sender has a
\* complete draft, one buffered media object and no ticket: the requester was
\* not found, or the poll 1 that asks for the requester is unanswered.
InitDrafted ==
  /\ sessions = [k \in Keys |-> 1]
  /\ \E polled \in BOOLEAN :
        /\ heap = [o \in SessionIds |->
                     IF o = 1
                     THEN PolledSession(IF polled THEN SelectionOf(1)
                                        ELSE NewSession.pendingSelection, <<>>, <<1>>)
                     ELSE NewSession]
        /\ pollMessages = IF polled THEN {1} ELSE {}
        /\ nextPoll = IF polled THEN 2 ELSE 1
  /\ handlers = [i \in HandlerIds |-> Idle]
  /\ createdCount = [o \in SessionIds |-> 0]
  /\ uploadErrors = 0
  /\ unanswered = {}
  /\ fnInput = <<>>
  /\ fnOutput = NoOutput
  /\ nextTicket = 1
  /\ events = 0
  /\ faults = 0
  /\ glpiEnabled = TRUE
  /\ glpi = NewGlpiClient("", "")

SpecDrafted == InitDrafted /\ [][Next]_vars

\* a media message has been buffered while the end command of the same
\* session was creating the ticket, and the flush of the finalization holds
\* both media
FlushTakesLateMedia ==
  \E i \in HandlerIds :
    /\ handlers[i].pc = "upload" /\ handlers[i].k = "flush"
    /\ handlers[i].ctx = "fin"
    /\ Len(handlers[i].queue) = 2

\* finalizeSession, lines 576-583: the attachment count that the final reply
\* shows for the session s (0 when the reply shows none)
finalReplyCount(s) ==
  IF s.ticketId # 0 /\ s.uploadedCount > 0 THEN s.uploadedCount ELSE 0

RECURSIVE SumHeld(_, _, _)
SumHeld(ids, hd, o) ==
  IF ids = {} THEN 0
  ELSE LET i == CHOOSE j \in ids : TRUE
           h == hd[i]
           handedOn == h.pc = "channel" /\ h.k \in {"mediaHint", "afterMedia"}
       IN  (IF h.sid = o
            THEN Len(h.queue) + (IF h.att # 0 /\ ~handedOn THEN 1 ELSE 0)
            ELSE 0)
           + SumHeld(ids \ {i}, hd, o)

\* the uploads of the session o that have succeeded plus the media it has
\* received and that have yet to be uploaded
ReceivedBound(hp, hd, o) ==
  hp[o].uploadedCount + Len(hp[o].attachments) + SumHeld(HandlerIds, hd, o)

RefusedTokenIsOld(r) ==
  LET q == glpi.requests[r]
      kind == SessionOf(glpi, q.fn, q.useProfile)
  IN  /\ q.pc = "sent" /\ q.retry
      /\ glpi.sessionToken[kind] # 0
      /\ glpi.sessionToken[kind] # q.token
      /\ ResponseArrives(r, "invalid")

\* at most one login of the session kind is in flight once a request has
\* been refused
OneLoginAfterRefusal ==
  \A kind \in Kinds :
    (\E r \in CallerIds : glpi.requests[r].stale # 0
                          /\ SessionOf(glpi, glpi.requests[r].fn,
                                       glpi.requests[r].useProfile) = kind)
      => Cardinality(LoginsInFlight(kind)) <= 1

\* the token that a login has cached since the refused request was sent
\* stays cached when the refusal is handled
FreshTokenKept ==
  [][\A r \in CallerIds :
        RefusedTokenIsOld(r) =>
          LET q == glpi.requests[r]
              kind == SessionOf(glpi, q.fn, q.useProfile)
          IN  glpi'.sessionToken[kind] = glpi.sessionToken[kind]]_vars

\* C40: when requests are refused for an expired token, at most one login of
\* the session is in flight at any time, and the handling of a refusal never
\* discards a token that a login has cached since the refused request was
\* sent.
ReauthenticationIsShared ==
  /\ []OneLoginAfterRefusal
  /\ FreshTokenKept

====
